---- MODULE Spec2Model ----
(***************************************************************************)
(* Model of prometheus-nats-ambassador: the /proxy bridge                  *)
(* (ProxyRequestHandler), the exporter subscription callback               *)
(* (ProxyPrometheusRequest), the /api/v1/write ingress                     *)
(* (RemoteWriteHandler), the remote write subscription callback            *)
(* (RelayPrometheusRemoteWrite) and the message bus between them.          *)
(*                                                                         *)
(* Go strings are sequences of one-character strings; an int is a 64-bit   *)
(* two's complement value kept as eight bytes, least significant first;    *)
(* a query string is the sequence of its key/value pairs.                  *)
(***************************************************************************)
EXTENDS Integers, Sequences, FiniteSets, TLC

(***************************************************************************)
(* Bounds of the model.                                                    *)
(***************************************************************************)
\* longest generated Host value, in characters
MaxHostLen == 3
\* pull requests the collector sends in one run of Spec
MaxRequests == 2
\* push requests the agent sends in one run of SpecPush
MaxPushes == 2

(***************************************************************************)
(* strings                                                                 *)
(***************************************************************************)
UpperChars == <<"A","B","C","D","E","F","G","H","I","J","K","L","M",
                "N","O","P","Q","R","S","T","U","V","W","X","Y","Z">>

LowerChars == <<"a","b","c","d","e","f","g","h","i","j","k","l","m",
                "n","o","p","q","r","s","t","u","v","w","x","y","z">>

Digits == <<"0","1","2","3","4","5","6","7","8","9">>

ToLowerChar(c) ==
    IF \E i \in 1..Len(UpperChars) : UpperChars[i] = c
    THEN LowerChars[CHOOSE i \in 1..Len(UpperChars) : UpperChars[i] = c]
    ELSE c

\* a plausible slip: the host is used as received
ToLowerAsReceived(s) == s

\* strings.ToLower
ToLower(s) == [i \in 1..Len(s) |-> ToLowerChar(s[i])]

\* index of the first c in s at or after position from, 0 when there is none
IndexFrom(s, c, from) ==
    IF \E i \in from..Len(s) : s[i] = c
    THEN CHOOSE i \in from..Len(s) : s[i] = c /\ \A j \in from..(i-1) : s[j] # c
    ELSE 0

\* index of the last c in s, 0 when there is none
LastIndex(s, c) ==
    IF \E i \in 1..Len(s) : s[i] = c
    THEN CHOOSE i \in 1..Len(s) : s[i] = c /\ \A j \in (i+1)..Len(s) : s[j] # c
    ELSE 0

\* s[from..to], empty when from > to
Slice(s, from, to) == [i \in 1..(to - from + 1) |-> s[from + i - 1]]

RECURSIVE Split(_, _)
\* strings.Split(s, sep) for a one-character sep: at least one element
Split(s, sep) ==
    LET i == IndexFrom(s, sep, 1)
    IN  IF i = 0 THEN <<s>>
        ELSE <<Slice(s, 1, i - 1)>> \o Split(Slice(s, i + 1, Len(s)), sep)

RECURSIVE JoinNoSeparator(_, _)
\* a plausible slip: the separator is left out
JoinNoSeparator(elems, sep) ==
    IF Len(elems) = 0 THEN <<>> ELSE elems[1] \o JoinNoSeparator(Tail(elems), sep)

RECURSIVE Join(_, _)
\* strings.Join(elems, sep)
Join(elems, sep) ==
    IF Len(elems) = 0 THEN <<>>
    ELSE IF Len(elems) = 1 THEN elems[1]
    ELSE elems[1] \o sep \o Join(Tail(elems), sep)

\* strings.ReplaceAll(s, old, new) for one-character old and new
ReplaceAll(s, old, new) == [i \in 1..Len(s) |-> IF s[i] = old THEN new ELSE s[i]]

\* a plausible slip: the loop appends, so the labels keep their order
HostRevAppended(hostFwd) == hostFwd

RECURSIVE HostRev(_)
\* the loop that builds hostRev: each label is put in front of the ones before
HostRev(hostFwd) ==
    IF Len(hostFwd) = 0 THEN <<>>
    ELSE <<hostFwd[Len(hostFwd)]>> \o HostRev(SubSeq(hostFwd, 1, Len(hostFwd) - 1))

(***************************************************************************)
(* net.SplitHostPort                                                       *)
(***************************************************************************)
AddrErr(why) == [host |-> <<>>, port |-> <<>>, err |-> why]

SplitBracketed(hostport, i) ==
    LET end == IndexFrom(hostport, "]", 1)
    IN  IF end = 0 THEN AddrErr("missing ']' in address")
        ELSE IF end = Len(hostport) THEN AddrErr("missing port in address")
        ELSE IF end + 1 # i THEN
            IF hostport[end + 1] = ":" THEN AddrErr("too many colons in address")
            ELSE AddrErr("missing port in address")
        ELSE IF IndexFrom(hostport, "[", 2) # 0 THEN AddrErr("unexpected '[' in address")
        ELSE IF IndexFrom(hostport, "]", end + 1) # 0 THEN AddrErr("unexpected ']' in address")
        ELSE [host |-> Slice(hostport, 2, end - 1),
              port |-> Slice(hostport, i + 1, Len(hostport)),
              err  |-> "nil"]

SplitPlain(hostport, i) ==
    IF IndexFrom(Slice(hostport, 1, i - 1), ":", 1) # 0
    THEN AddrErr("too many colons in address")
    ELSE IF IndexFrom(hostport, "[", 1) # 0 THEN AddrErr("unexpected '[' in address")
    ELSE IF IndexFrom(hostport, "]", 1) # 0 THEN AddrErr("unexpected ']' in address")
    ELSE [host |-> Slice(hostport, 1, i - 1),
          port |-> Slice(hostport, i + 1, Len(hostport)),
          err  |-> "nil"]

\* the port starts after the last colon; a host in brackets may hold colons
SplitHostPort(hostport) ==
    LET i == LastIndex(hostport, ":")
    IN  IF i = 0 THEN AddrErr("missing port in address")
        ELSE IF hostport[1] = "[" THEN SplitBracketed(hostport, i)
        ELSE SplitPlain(hostport, i)

(***************************************************************************)
(* int: 64-bit two's complement, eight bytes, least significant first      *)
(***************************************************************************)
Int64Zero == [i \in 1..8 |-> 0]

\* the int64 of a natural number below 2^31
Int64Of(n) == [i \in 1..8 |-> IF i > 4 THEN 0 ELSE (n \div (256 ^ (i - 1))) % 256]

IsNegative(a) == a[8] >= 128

RECURSIVE AddCarry(_, _, _)
\* a + carry over the bytes from position i on, the carry out of the top dropped
AddCarry(a, carry, i) ==
    IF i > Len(a) THEN <<>>
    ELSE <<(a[i] + carry) % 256>> \o AddCarry(a, (a[i] + carry) \div 256, i + 1)

\* -a in two's complement
Negate(a) == AddCarry([i \in 1..Len(a) |-> 255 - a[i]], 1, 1)

RECURSIVE MulAddRaw(_, _, _, _)
\* a * m + carry byte by byte; one more byte than a, the last holding the overflow
MulAddRaw(a, m, carry, i) ==
    IF i > Len(a) THEN <<carry>>
    ELSE <<(a[i] * m + carry) % 256>> \o MulAddRaw(a, m, (a[i] * m + carry) \div 256, i + 1)

ColumnSum(a, b, k) ==
    LET Term[i \in 0..k] ==
            IF i = 0 THEN 0
            ELSE Term[i - 1] + (IF k - i + 1 <= Len(b) THEN a[i] * b[k - i + 1] ELSE 0)
    IN  Term[k]

RECURSIVE MulColumns(_, _, _, _)
MulColumns(a, b, k, carry) ==
    IF k > Len(a) THEN <<>>
    ELSE <<(ColumnSum(a, b, k) + carry) % 256>>
         \o MulColumns(a, b, k + 1, (ColumnSum(a, b, k) + carry) \div 256)

\* a * b of Go's int64: the low 64 bits of the product
Mul64(a, b) == MulColumns(a, b, 1, 0)

RECURSIVE DivMod10(_, _, _)
\* the unsigned a divided by 10, from the top byte down: <<quotient, remainder>>
DivMod10(a, i, rem) ==
    IF i = 0 THEN <<<<>>, rem>>
    ELSE LET cur  == rem * 256 + a[i]
             rest == DivMod10(a, i - 1, cur % 10)
         IN  <<rest[1] \o <<cur \div 10>>, rest[2]>>

RECURSIVE UnsignedDigits(_)
\* the decimal digits of the unsigned a, no leading zero
UnsignedDigits(a) ==
    LET qr == DivMod10(a, Len(a), 0)
    IN  IF \A i \in 1..Len(a) : qr[1][i] = 0 THEN <<Digits[qr[2] + 1]>>
        ELSE UnsignedDigits(qr[1]) \o <<Digits[qr[2] + 1]>>

\* strconv.Itoa
Itoa(a) == IF IsNegative(a) THEN <<"-">> \o UnsignedDigits(Negate(a)) ELSE UnsignedDigits(a)

IsDigit(c) == \E d \in 1..Len(Digits) : Digits[d] = c

DigitValue(c) == (CHOOSE d \in 1..Len(Digits) : Digits[d] = c) - 1

RECURSIVE ParseDigits(_, _, _)
\* the magnitude of the digits s[i..]: eight bytes and whether 64 bits overflowed
ParseDigits(s, i, acc) ==
    IF i > Len(s) THEN [val |-> acc, overflow |-> FALSE]
    ELSE LET raw == MulAddRaw(acc, 10, DigitValue(s[i]), 1)
         IN  IF raw[9] # 0 THEN [val |-> acc, overflow |-> TRUE]
             ELSE ParseDigits(s, i + 1, SubSeq(raw, 1, 8))

AtoiErr == [val |-> Int64Zero, ok |-> FALSE]

\* strconv.Atoi on a 64-bit build: an optional sign, then decimal digits only;
\* a value outside int64 is a range error
Atoi(s) ==
    LET signed == Len(s) > 0 /\ s[1] \in {"+", "-"}
        neg    == Len(s) > 0 /\ s[1] = "-"
        digits == IF signed THEN Tail(s) ELSE s
    IN  IF Len(digits) = 0 \/ \E i \in 1..Len(digits) : ~IsDigit(digits[i]) THEN AtoiErr
        ELSE LET m == ParseDigits(digits, 1, Int64Zero)
             IN  IF m.overflow THEN AtoiErr
                 ELSE IF ~neg /\ IsNegative(m.val) THEN AtoiErr
                 ELSE IF neg /\ IsNegative(m.val) /\ m.val # Negate(m.val) THEN AtoiErr
                 ELSE [val |-> IF neg THEN Negate(m.val) ELSE m.val, ok |-> TRUE]

\* time.Second, in nanoseconds: 1000000000 = 0x3B9ACA00
Second == <<0, 202, 154, 59, 0, 0, 0, 0>>

\* time.Duration(n) * time.Second
Seconds(n) == Mul64(n, Second)

(***************************************************************************)
(* url.Values: a query string is the sequence of its <<key, value>> pairs  *)
(***************************************************************************)
TimeoutKey == "x-prometheus-scrape-timeout-seconds"

\* the query keys of the model, in the byte order sort.Strings gives them
SortedKeys == <<"module", TimeoutKey, "zone">>

\* url.ParseQuery, r.URL.Query: key -> its values in order of appearance
ParseQuery(pairs) ==
    [k \in {pairs[i][1] : i \in 1..Len(pairs)} |->
        LET own == SelectSeq(pairs, LAMBDA p : p[1] = k)
        IN  [i \in 1..Len(own) |-> own[i][2]]]

\* Values.Add: the value goes after the ones the key already has
ValuesAdd(v, key, value) ==
    [k \in DOMAIN v \cup {key} |->
        IF k = key THEN (IF key \in DOMAIN v THEN Append(v[key], value) ELSE <<value>>)
        ELSE v[k]]

\* Values.Get: the first value of the key, "" when it has none
ValuesGet(v, key) == IF key \in DOMAIN v /\ Len(v[key]) > 0 THEN v[key][1] ELSE <<>>

\* a plausible slip: the key is read and left in the query
ValuesDelNothing(v, key) == v

\* Values.Del
ValuesDel(v, key) == [k \in DOMAIN v \ {key} |-> v[k]]

RECURSIVE EncodeFrom(_, _)
EncodeFrom(v, n) ==
    IF n > Len(SortedKeys) THEN <<>>
    ELSE (IF SortedKeys[n] \in DOMAIN v
          THEN [i \in 1..Len(v[SortedKeys[n]]) |-> <<SortedKeys[n], v[SortedKeys[n]][i]>>]
          ELSE <<>>)
         \o EncodeFrom(v, n + 1)

\* Values.Encode: sorted by key, the values of a key in their order
Encode(v) == EncodeFrom(v, 1)

(***************************************************************************)
(* configuration and inputs                                                *)
(***************************************************************************)
\* the default of -subjbase
DefaultTopicBase ==
    <<"i","o",".","p","r","o","m","e","t","h","e","u","s",".","e","x","p",
      "o","r","t","e","r",".">>

\* the values of -subjbase
TopicBases == {DefaultTopicBase, <<"n", ".">>}

\* -subjbase of a process that takes remote writes
RemoteBase == <<"r",".","s">>

\* the values of -subjfmt
TopicFmts == {"mod", "fwd", "rev"}

\* the host of the README's example, as a collector sends it
ExampleHost ==
    <<"T","a","r","g","e","t","1",".","E","x","a","m","p","l","e",".","c",
      "o","m",":","9","1","0","0">>

\* the same target without a port
ExampleHostNoPort ==
    <<"t","a","r","g","e","t","1",".","e","x","a","m","p","l","e",".","c",
      "o","m">>

\* a host that differs from the example only by "_" for "."
UnderscoreHost ==
    <<"t","a","r","g","e","t","1","_","e","x","a","m","p","l","e","_","c",
      "o","m",":","9","1","0","0">>

\* the example's subjects in the README, one per format
ExampleSubjectMod ==
    <<"i","o",".","p","r","o","m","e","t","h","e","u","s",".","e","x","p",
      "o","r","t","e","r",".","t","a","r","g","e","t","1","_","e","x","a",
      "m","p","l","e","_","c","o","m",".","9","1","0","0">>

ExampleSubjectFwd ==
    <<"i","o",".","p","r","o","m","e","t","h","e","u","s",".","e","x","p",
      "o","r","t","e","r",".","t","a","r","g","e","t","1",".","e","x","a",
      "m","p","l","e",".","c","o","m",".","9","1","0","0">>

ExampleSubjectRev ==
    <<"i","o",".","p","r","o","m","e","t","h","e","u","s",".","e","x","p",
      "o","r","t","e","r",".","c","o","m",".","e","x","a","m","p","l","e",
      ".","t","a","r","g","e","t","1",".","9","1","0","0">>

ExampleSubject(fmt) ==
    CASE fmt = "rev" -> ExampleSubjectRev
      [] fmt = "fwd" -> ExampleSubjectFwd
      [] OTHER       -> ExampleSubjectMod

ExampleRoute == "http://target1.localnet:9100/metrics"

\* subscription files: none, or the README's record for the example target
SubscriptionFiles(fmt) ==
    {<<>>, <<[topic |-> ExampleSubject(fmt), route |-> ExampleRoute]>>}

RECURSIVE StringsUpTo(_, _)
\* every string over chars of at most n characters
StringsUpTo(chars, n) ==
    IF n = 0 THEN {<<>>}
    ELSE LET shorter == StringsUpTo(chars, n - 1)
         IN  shorter \cup {Append(s, c) : s \in shorter, c \in chars}

HostChars == {"a", "A", ".", ":", "_", "8"}

\* Host values of the resolver's specification: every short string, the
\* README's example, and hosts in brackets
ResolveHosts ==
    StringsUpTo(HostChars, MaxHostLen)
    \cup {ExampleHost, ExampleHostNoPort, UnderscoreHost,
          <<"[",":","]",":","8","0">>, <<"[","a",".","A","]",":","8">>,
          <<"[","a","]">>, <<"a",".","A",":","8","0">>}

\* Host values of the bridge's specification
HostSamples ==
    {<<>>, ExampleHost, ExampleHostNoPort, UnderscoreHost, <<":">>,
     <<"a",".","A",":","8","0">>}

\* x-prometheus-scrape-timeout-seconds header values; <<>> is an absent header
TimeoutHeaders ==
    {<<>>, <<"5">>, <<"1",".","5">>, <<"0">>, <<"-","1">>,
     <<"9","2","2","3","3","7","2","0","3","7">>,
     <<"1","8","4","4","6","7","4","4","0","7","4">>}

\* query strings of the inbound request
Queries ==
    {<<>>,
     << <<"module", <<"m">>>> >>,
     << <<TimeoutKey, <<"3">>>> >>,
     << <<"zone", <<"z">>>>, <<TimeoutKey, <<"3">>>>, <<"module", <<"m">>>> >>}

PullRequest(xfh, host, timeoutHdr, query) ==
    [xfh |-> xfh, host |-> host, timeoutHdr |-> timeoutHdr, query |-> query]

\* the pull requests of the bridge's specification: every Host value, every
\* timeout header with every query for the example target (the handler reads
\* the host and the timeout independently), and requests with x-forwarded-host
Requests ==
    {PullRequest(<<>>, h, <<>>, <<>>) : h \in HostSamples}
    \cup {PullRequest(<<>>, ExampleHost, t, q) : t \in TimeoutHeaders, q \in Queries}
    \cup {PullRequest(ExampleHost, h, <<"5">>, <<>>) : h \in {<<>>, UnderscoreHost}}

\* the pull requests of the resolver's specification
ResolveRequests ==
    {PullRequest(x, h, <<>>, <<>>) : x \in {<<>>}, h \in ResolveHosts}
    \cup {PullRequest(ExampleHost, <<>>, <<>>, <<>>)}

\* bodies an exporter answers with
Bodies == {<<>>, <<"up 1">>}

(***************************************************************************)
(* state                                                                   *)
(***************************************************************************)
VARIABLES
    topicBase,      \* -subjbase
    topicFmt,       \* -subjfmt
    exporterSub,    \* the records of the subscription file
    topicMap,       \* subject -> target URL, filled by main's subscription loop
    running,        \* the bridge's process has not exited
    served,         \* pull requests received so far
    pc,             \* the /proxy handler: "idle", "request" (in nc.Request), "fatal"
    req,            \* the pull request last received, <<>> before the first
    resp,           \* the HTTP response written for req, <<>> while there is none
    natsReq,        \* what the handler passed to nc.Request for req
    natsReply,      \* the reply message waiting for the handler's nc.Request
    inbox,          \* messages delivered to the exporter subscription, in order
    rpc,            \* the subscription callback: "idle" or "get" (in client.Do)
    get,            \* the HTTP GET the callback waits for, <<>> outside client.Do
    proxyRequest,   \* natsambassador_requests_total, by <<subject, code>>
    proxyReply,     \* natsambassador_replies_total, by <<subject, code>>
    lastErr,        \* pubsub.nc.LastError() is not nil
    scrape,         \* how the callback's last HTTP GET ended, <<>> before the first
    relayTopic,     \* -subjbase of the relaying process, its subscription's subject
    topicRemoteWrite, \* -remotewrite of the relaying process, "" when not set
    written,        \* push requests received so far
    wpc,            \* the /api/v1/write handler: "idle" or "published"
    wreq,           \* the push request last received, <<>> before the first
    wresp,          \* the HTTP response written for wreq, <<>> while there is none
    pub,            \* the calls of nc.Publish so far, in order
    relayInbox,     \* messages delivered to the remote write subscription
    kpc,            \* the relay's callback: "idle" or "post" (in client.Do)
    post,           \* the HTTP POST the callback waits for, <<>> outside client.Do
    relayed         \* how the callback ended for each message, in order: the
                    \* endpoint's status and body, if any, and the error
                    \* returned, <<>> for nil
VARIABLES
    env,            \* what main finds: the subscription file, -creds, whether
                    \* nats.Connect and http.ListenAndServe succeed
    boot,           \* main's position ("stat", "connect", "loop", "write",
                    \* "subscribe", "serve", "exit") and the loop's index i
    subscribed,     \* the topics of the exporter subscriptions made so far
    invocations     \* goroutines at a CounterVec.With(...).Inc() call

startup == <<env, boot, subscribed>>

config == <<topicBase, topicFmt, exporterSub, topicMap>>

bridge == <<running, served, pc, req, resp, natsReq, natsReply>>

responder == <<inbox, rpc, get>>

counters == <<proxyRequest, proxyReply>>

\* the push path: the ingress handler and the relaying process
ingress == <<written, wpc, wreq, wresp, pub>>

relay == <<relayTopic, topicRemoteWrite, relayInbox, kpc, post, relayed>>

push == <<ingress, relay>>

vars == <<startup, invocations, config, bridge, responder, counters, lastErr, scrape,
         push>>

\* CounterVec.With(labels).Inc()
Inc(counter, labels) ==
    IF labels \in DOMAIN counter
    THEN [counter EXCEPT ![labels] = @ + 1]
    ELSE [l \in DOMAIN counter \cup {labels} |-> IF l = labels THEN 1 ELSE counter[l]]

\* the value a scrape of /metrics shows for the labels
Count(counter, labels) == IF labels \in DOMAIN counter THEN counter[labels] ELSE 0

Total(counter) ==
    LET Sum[keys \in SUBSET DOMAIN counter] ==
            IF keys = {} THEN 0
            ELSE LET k == CHOOSE k \in keys : TRUE IN counter[k] + Sum[keys \ {k}]
    IN  Sum[DOMAIN counter]

\* main's loop over exporterSub: a later record of a topic overwrites the route
TopicMapOf(subs) ==
    [t \in {subs[i].topic : i \in 1..Len(subs)} |->
        subs[CHOOSE i \in 1..Len(subs) :
                /\ subs[i].topic = t
                /\ \A j \in (i + 1)..Len(subs) : subs[j].topic # t].route]

RECURSIVE TokensMatch(_, _)
TokensMatch(pattern, tokens) ==
    IF Len(pattern) = 0 THEN Len(tokens) = 0
    ELSE IF pattern[1] = <<">">> THEN Len(pattern) = 1 /\ Len(tokens) > 0
    ELSE /\ Len(tokens) > 0
         /\ pattern[1] \in {<<"*">>, tokens[1]}
         /\ TokensMatch(Tail(pattern), Tail(tokens))

\* the bus delivers a subject to a subscription whose topic matches it token
\* by token, "*" standing for one token and a final ">" for one or more
SubjectMatches(topic, subject) == TokensMatch(Split(topic, "."), Split(subject, "."))

(***************************************************************************)
(* ProxyRequestHandler                                                     *)
(***************************************************************************)
Response(status, contentType, body) ==
    <<[status |-> status, contentType |-> contentType, body |-> body]>>

MissingHostBody == <<"<html>...<b>ERROR: missing Host parameter</b>...</html>">>

\* from net.SplitHostPort to the subject: the error of the split, or the subject
ResolveSubject(hostReq, fmt, base) ==
    LET sp       == SplitHostPort(hostReq)
        unsplit  == sp.host = <<>> /\ sp.port = <<>>
        hostName == IF unsplit THEN hostReq ELSE sp.host
        hostPort == IF unsplit THEN Itoa(Int64Of(80)) ELSE sp.port
        hostFwd  == Split(hostName, ".")
        rendered == CASE fmt = "rev" -> Join(HostRev(hostFwd), <<".">>)
                      [] fmt = "fwd" -> Join(hostFwd, <<".">>)
                      [] OTHER       -> ReplaceAll(hostName, ".", "_")
    IN  IF sp.err # "nil" THEN [err |-> sp.err, subj |-> <<>>]
        ELSE [err |-> "nil", subj |-> base \o rendered \o <<".">> \o hostPort]

\* a variant: a header below one is replaced by the default as well
PromScrapeTimeoutRawAtLeastOne(r) ==
    LET n == Atoi(r.timeoutHdr)
    IN  IF n.ok /\ ~IsNegative(n.val) /\ n.val # Int64Zero THEN n.val ELSE Int64Of(10)

\* the header as an int, 10 when strconv.Atoi fails
PromScrapeTimeoutRaw(r) ==
    LET n == Atoi(r.timeoutHdr) IN IF n.ok THEN n.val ELSE Int64Of(10)

\* the query of the request with the timeout added, encoded
Payload(r) ==
    Encode(ValuesAdd(ParseQuery(r.query), TimeoutKey, Itoa(PromScrapeTimeoutRaw(r))))

\* nc.Request publishes the message: every matching subscription gets it
Publish(msg) ==
    IF \E i \in 1..Len(exporterSub) : SubjectMatches(exporterSub[i].topic, msg.subject)
    THEN Append(inbox, msg)
    ELSE inbox

\* a plausible slip: no check of the empty host, and a host that does not
\* split is sent on with port 80
HandlerOutcomeLenient(r, fmt, base) ==
    LET hostReq == ToLower(r.host)
        res     == ResolveSubject(hostReq, fmt, base)
    IN  [kind    |-> IF r.xfh # <<>> THEN "fatal" ELSE "request",
         resp    |-> <<>>,
         subject |-> IF r.xfh # <<>> THEN <<>>
                     ELSE IF res.err = "nil" THEN res.subj
                     ELSE base \o hostReq \o <<".", "8", "0">>,
         data    |-> IF r.xfh # <<>> THEN <<>> ELSE Payload(r),
         timeout |-> IF r.xfh # <<>> THEN Int64Zero ELSE Seconds(PromScrapeTimeoutRaw(r))]

\* the handler's code from its entry to its return ("response"), its exit
\* ("fatal") or its call of nc.Request ("request"), under -subjfmt fmt and
\* -subjbase base
HandlerOutcome(r, fmt, base) ==
    LET hostReq == ToLower(r.host)
        res     == ResolveSubject(hostReq, fmt, base)
        none    == [kind |-> "fatal", resp |-> <<>>, subject |-> <<>>, data |-> <<>>,
                    timeout |-> Int64Zero]
    IN  IF r.xfh # <<>>
        THEN \* switch default: logger.Fatal
             none
        ELSE IF hostReq = <<>>
        THEN [none EXCEPT !.kind = "response",
                          !.resp = Response(502, "text/html", MissingHostBody)]
        ELSE IF res.err # "nil"
        THEN [none EXCEPT !.kind = "response", !.resp = Response(502, "", <<>>)]
        ELSE [none EXCEPT !.kind = "request",
                          !.subject = res.subj,
                          !.data = Payload(r),
                          !.timeout = Seconds(PromScrapeTimeoutRaw(r))]

\* HandlerOutcome of every input of the model, computed once
HandlerOutcomes ==
    [r \in Requests \cup ResolveRequests, fmt \in TopicFmts,
     base \in TopicBases \cup {RemoteBase} |->
        HandlerOutcome(r, fmt, base)]

\* the handler from its entry to its return, its exit, or its call of nc.Request
ProxyRequestHandler(r) ==
    /\ running
    /\ pc = "idle"
    /\ served' = served + 1
    /\ req' = <<r>>
    /\ natsReply' = <<>>
    /\ LET out == HandlerOutcomes[r, topicFmt, topicBase]
       IN  /\ running' = (out.kind # "fatal")
           /\ pc' = (IF out.kind = "response" THEN "idle" ELSE out.kind)
           /\ resp' = out.resp
           /\ natsReq' = IF out.kind = "request"
                         THEN <<[id |-> served + 1, subject |-> out.subject,
                                 data |-> out.data, timeout |-> out.timeout]>>
                         ELSE <<>>
           /\ inbox' = IF out.kind = "request"
                       THEN Publish([id |-> served + 1, subject |-> out.subject,
                                     data |-> out.data])
                       ELSE inbox
    /\ UNCHANGED <<startup, invocations, config,
                   rpc, get, counters, lastErr, scrape, push>>

\* a plausible slip: the success path counts under the failure's code
RequestRepliedAs503 ==
    /\ running
    /\ pc = "request"
    /\ natsReply # <<>>
    /\ proxyRequest' = Inc(proxyRequest, <<natsReq[1].subject, "503">>)
    /\ resp' = Response(200, "text/plain", natsReply[1].data)
    /\ pc' = "idle"
    /\ natsReply' = <<>>
    /\ UNCHANGED <<startup, invocations, config,
                   running, served, req, natsReq, responder, proxyReply,
                   lastErr, scrape, push>>

\* a plausible slip: the reply is counted once more after the write
RequestRepliedCountedTwice ==
    /\ running
    /\ pc = "request"
    /\ natsReply # <<>>
    /\ proxyRequest' = Inc(Inc(proxyRequest, <<natsReq[1].subject, "200">>),
                           <<natsReq[1].subject, "200">>)
    /\ resp' = Response(200, "text/plain", natsReply[1].data)
    /\ pc' = "idle"
    /\ natsReply' = <<>>
    /\ UNCHANGED <<startup, invocations, config,
                   running, served, req, natsReq, responder, proxyReply,
                   lastErr, scrape, push>>

\* nc.Request returned the reply: the rest of the handler
RequestReplied ==
    /\ running
    /\ pc = "request"
    /\ natsReply # <<>>
    /\ proxyRequest' = Inc(proxyRequest, <<natsReq[1].subject, "200">>)
    /\ resp' = Response(200, "text/plain", natsReply[1].data)
    /\ pc' = "idle"
    /\ natsReply' = <<>>
    /\ UNCHANGED <<startup, invocations, config,
                   running, served, req, natsReq, responder, proxyReply,
                   lastErr, scrape, push>>

\* a plausible slip: the failure is answered but not counted
RequestFailedUncounted(lastError) ==
    /\ running
    /\ pc = "request"
    /\ natsReply = <<>>
    /\ IF lastError
       THEN /\ running' = FALSE
            /\ pc' = "fatal"
            /\ UNCHANGED <<resp, proxyRequest>>
       ELSE /\ resp' = Response(503, "", <<>>)
            /\ proxyRequest' = proxyRequest
            /\ pc' = "idle"
            /\ running' = running
    /\ UNCHANGED <<startup, invocations, config,
                   served, req, natsReq, natsReply, responder, proxyReply,
                   lastErr, scrape, push>>

\* a plausible slip: the last error is logged and the failure is answered
\* like any other
RequestFailedLocally(lastError) ==
    /\ running
    /\ pc = "request"
    /\ natsReply = <<>>
    /\ resp' = Response(503, "", <<>>)
    /\ proxyRequest' = Inc(proxyRequest, <<natsReq[1].subject, "503">>)
    /\ pc' = "idle"
    /\ running' = running
    /\ UNCHANGED <<startup, invocations, config,
                   served, req, natsReq, natsReply, responder, proxyReply,
                   lastErr, scrape, push>>

\* a plausible slip: after a failure the request is published once more
RequestFailedRetrying(lastError) ==
    /\ running
    /\ pc = "request"
    /\ natsReply = <<>>
    /\ IF lastError
       THEN /\ running' = FALSE
            /\ pc' = "fatal"
            /\ UNCHANGED <<resp, proxyRequest, inbox>>
       ELSE IF Len(inbox) < 2
       THEN /\ inbox' = Publish([id |-> natsReq[1].id, subject |-> natsReq[1].subject,
                                  data |-> natsReq[1].data])
            /\ UNCHANGED <<running, pc, resp, proxyRequest>>
       ELSE /\ resp' = Response(503, "", <<>>)
            /\ proxyRequest' = Inc(proxyRequest, <<natsReq[1].subject, "503">>)
            /\ pc' = "idle"
            /\ UNCHANGED <<running, inbox>>
    /\ UNCHANGED <<startup, invocations, config,
                   served, req, natsReq, natsReply, rpc, get, proxyReply,
                   lastErr, scrape, push>>

\* a plausible slip: without a last error the handler goes on waiting
RequestFailedWaiting(lastError) ==
    /\ running
    /\ pc = "request"
    /\ natsReply = <<>>
    /\ lastError
    /\ running' = FALSE
    /\ pc' = "fatal"
    /\ UNCHANGED <<startup, invocations, config,
                   served, req, resp, natsReq, natsReply, responder, counters,
                   lastErr, scrape, push>>

\* nc.Request returned an error (no responders, or the timeout passed);
\* lastError: pubsub.nc.LastError() is not nil
RequestFailed(lastError) ==
    /\ running
    /\ pc = "request"
    /\ natsReply = <<>>
    /\ IF lastError
       THEN \* logger.Fatal
            /\ running' = FALSE
            /\ pc' = "fatal"
            /\ UNCHANGED <<resp, proxyRequest>>
       ELSE /\ resp' = Response(503, "", <<>>)
            /\ proxyRequest' = Inc(proxyRequest, <<natsReq[1].subject, "503">>)
            /\ pc' = "idle"
            /\ running' = running
    /\ UNCHANGED <<startup, invocations, config,
                   served, req, natsReq, natsReply, responder, proxyReply,
                   lastErr, scrape, push>>

(***************************************************************************)
(* the exporter subscription callback and ProxyPrometheusRequest           *)
(***************************************************************************)
\* msg.Respond: the reply reaches the requester only while it still waits
Respond(id, data) ==
    IF pc = "request" /\ natsReq # <<>> /\ natsReq[1].id = id
    THEN <<[data |-> data]>>
    ELSE natsReply

\* a plausible slip: the empty topic is not checked and the GET is made
ProxyPrometheusRequestStartInUnchecked(table) ==
    /\ rpc = "idle"
    /\ inbox # <<>>
    /\ inbox' = Tail(inbox)
    /\ LET msg     == Head(inbox)
           topic   == msg.subject
           urlHost == IF topic \in DOMAIN table THEN table[topic] ELSE ""
           p       == ParseQuery(msg.data)
           n       == Atoi(ValuesGet(p, TimeoutKey))
           timeoutScrape == IF n.ok THEN n.val ELSE Int64Of(10)
       IN  IF FALSE
           THEN \* "400 Bad Request no topic"
                /\ proxyReply' = Inc(proxyReply, <<topic, "400">>)
                /\ natsReply' = Respond(msg.id, <<>>)
                /\ scrape' = <<[id |-> msg.id, outcome |-> "no topic", body |-> <<>>]>>
                /\ UNCHANGED <<rpc, get>>
           ELSE /\ get' = <<[id      |-> msg.id,
                             topic   |-> topic,
                             url     |-> urlHost,
                             query   |-> Encode(ValuesDel(p, TimeoutKey)),
                             timeout |-> Seconds(timeoutScrape)]>>
                /\ rpc' = "get"
                /\ UNCHANGED <<proxyReply, natsReply, scrape>>
    /\ UNCHANGED <<startup, invocations, config,
                   running, served, pc, req, resp, natsReq, proxyRequest,
                   lastErr, push>>

\* the callback for the next message, up to client.Do, when the lookup
\* topicMap[msg.Subject] is made in table
ProxyPrometheusRequestStartIn(table) ==
    /\ rpc = "idle"
    /\ inbox # <<>>
    /\ inbox' = Tail(inbox)
    /\ LET msg     == Head(inbox)
           topic   == msg.subject
           urlHost == IF topic \in DOMAIN table THEN table[topic] ELSE ""
           p       == ParseQuery(msg.data)
           n       == Atoi(ValuesGet(p, TimeoutKey))
           timeoutScrape == IF n.ok THEN n.val ELSE Int64Of(10)
       IN  IF topic = <<>>
           THEN \* "400 Bad Request no topic"
                /\ proxyReply' = Inc(proxyReply, <<topic, "400">>)
                /\ natsReply' = Respond(msg.id, <<>>)
                /\ scrape' = <<[id |-> msg.id, outcome |-> "no topic", body |-> <<>>]>>
                /\ UNCHANGED <<rpc, get>>
           ELSE /\ get' = <<[id      |-> msg.id,
                             topic   |-> topic,
                             url     |-> urlHost,
                             query   |-> Encode(ValuesDel(p, TimeoutKey)),
                             timeout |-> Seconds(timeoutScrape)]>>
                /\ rpc' = "get"
                /\ UNCHANGED <<proxyReply, natsReply, scrape>>
    /\ UNCHANGED <<startup, invocations, config,
                   running, served, pc, req, resp, natsReq, proxyRequest,
                   lastErr, push>>

\* the callback for the next message, up to client.Do
ProxyPrometheusRequestStart == ProxyPrometheusRequestStartIn(topicMap)

\* a plausible slip: the reply is counted before the outcome is looked at
ProxyPrometheusRequestDoneCountingAll(outcome, body) ==
    /\ rpc = "get"
    /\ rpc' = "idle"
    /\ get' = <<>>
    /\ scrape' = <<[id |-> get[1].id, outcome |-> outcome, body |-> body]>>
    /\ IF outcome = "ok"
       THEN /\ proxyReply' = Inc(proxyReply, <<get[1].topic, "200">>)
            /\ natsReply' = Respond(get[1].id, body)
       ELSE \* the error is logged and the empty reply is sent
            /\ proxyReply' = Inc(proxyReply, <<get[1].topic, "200">>)
            /\ natsReply' = Respond(get[1].id, <<>>)
    /\ UNCHANGED <<startup, invocations, config,
                   running, served, pc, req, resp, natsReq, inbox, proxyRequest,
                   lastErr, push>>

\* client.Do and io.ReadAll finished: the rest of the callback; body is what
\* was read of the exporter's answer, <<>> when there is none
ProxyPrometheusRequestDone(outcome, body) ==
    /\ rpc = "get"
    /\ rpc' = "idle"
    /\ get' = <<>>
    /\ scrape' = <<[id |-> get[1].id, outcome |-> outcome, body |-> body]>>
    /\ IF outcome = "ok"
       THEN /\ proxyReply' = Inc(proxyReply, <<get[1].topic, "200">>)
            /\ natsReply' = Respond(get[1].id, body)
       ELSE \* the error is logged and the empty reply is sent
            /\ proxyReply' = proxyReply
            /\ natsReply' = Respond(get[1].id, <<>>)
    /\ UNCHANGED <<startup, invocations, config,
                   running, served, pc, req, resp, natsReq, inbox, proxyRequest,
                   lastErr, push>>

(***************************************************************************)
(* RemoteWriteHandler: the push ingress                                    *)
(***************************************************************************)
Snappy == <<"s","n","a","p","p","y">>

Zstd == <<"z","s","t","d">>

\* ".encoding."
EncodingInfix == <<".","e","n","c","o","d","i","n","g",".">>

\* subjects a relaying process is started with as -subjbase: the ingress's
\* own base, that base with the encoding tokens, and everything below "r"
RelayTopics ==
    {RemoteBase,
     RemoteBase \o <<".","e","n","c","o","d","i","n","g",".","*">>,
     <<"r",".",">">>}

\* values of -remotewrite, "" when the option is not given
RemoteWriteURLs == {"", "http://mimir.localnet/api/v1/push"}

PushRequest(method, enc, ctype, version, body, readErr) ==
    [method |-> method, enc |-> enc, ctype |-> ctype, version |-> version,
     body |-> body, readErr |-> readErr]

\* what a Prometheus agent sends: snappy, protobuf, version 0.1.0, a body
AgentRequest ==
    PushRequest("POST", Snappy, "application/x-protobuf", "0.1.0", <<"b1", "b2">>, FALSE)

\* the agent's request, that request with one field changed, and requests
\* with two fields wrong
PushRequests ==
    {AgentRequest}
    \cup {[AgentRequest EXCEPT !.method = m] : m \in {"GET", "PUT"}}
    \cup {[AgentRequest EXCEPT !.enc = e] :
            e \in {Zstd, <<"S","n","a","p","p","y">>, <<"Z","S","T","D">>,
                   <<"g","z","i","p">>, <<>>}}
    \cup {[AgentRequest EXCEPT !.ctype = c] :
            c \in {"", "text/plain", "Application/X-Protobuf"}}
    \cup {[AgentRequest EXCEPT !.version = v] : v \in {"", "2.0.0"}}
    \cup {[AgentRequest EXCEPT !.body = b] : b \in {<<>>, <<"b3">>}}
    \cup {[AgentRequest EXCEPT !.readErr = TRUE]}
    \cup {[AgentRequest EXCEPT !.method = "GET", !.enc = <<"g","z","i","p">>],
          [AgentRequest EXCEPT !.enc = <<"g","z","i","p">>, !.body = <<>>],
          [AgentRequest EXCEPT !.ctype = "text/plain", !.readErr = TRUE],
          [AgentRequest EXCEPT !.enc = Zstd, !.body = <<>>]}

\* nats.go refuses to subscribe to a subject with an empty token, and the
\* server delivers a message published to one to nobody
BadSubject(subj) ==
    subj = <<>> \/ \E i \in 1..Len(Split(subj, ".")) : Split(subj, ".")[i] = <<>>

\* the remote write subscription exists: -remotewrite is set and
\* nc.Subscribe(topicBase, ...) returned no error
RelaySubscribed == topicRemoteWrite # "" /\ ~BadSubject(relayTopic)

\* the bus delivers the published message to the relay's subscription
PublishWrite(msg) ==
    IF RelaySubscribed /\ ~BadSubject(msg.subject)
          /\ SubjectMatches(relayTopic, msg.subject)
    THEN Append(relayInbox, msg)
    ELSE relayInbox

\* a plausible slip: the protocol version is not checked
WriteOutcomeAnyVersion(r, base) ==
    LET enc  == ToLower(r.enc)
        none == [kind |-> "response", status |-> 0, subject |-> <<>>, data |-> <<>>]
    IN  IF r.method # "POST" THEN [none EXCEPT !.status = 405]
        ELSE IF enc # Snappy /\ enc # Zstd THEN [none EXCEPT !.status = 400]
        ELSE IF r.ctype # "application/x-protobuf" THEN [none EXCEPT !.status = 400]
        ELSE IF r.readErr THEN [none EXCEPT !.status = 500]
        ELSE IF Len(r.body) = 0 THEN [none EXCEPT !.status = 400]
        ELSE [none EXCEPT !.kind = "publish",
                          !.subject = base \o EncodingInfix \o enc,
                          !.data = r.body]

\* a plausible slip: the subject is built from the header as it was sent
WriteOutcomeTagAsSent(r, base) ==
    LET enc  == ToLower(r.enc)
        none == [kind |-> "response", status |-> 0, subject |-> <<>>, data |-> <<>>]
    IN  IF r.method # "POST" THEN [none EXCEPT !.status = 405]
        ELSE IF enc # Snappy /\ enc # Zstd THEN [none EXCEPT !.status = 400]
        ELSE IF r.ctype # "application/x-protobuf" THEN [none EXCEPT !.status = 400]
        ELSE IF r.version # "0.1.0" THEN [none EXCEPT !.status = 400]
        ELSE IF r.readErr THEN [none EXCEPT !.status = 500]
        ELSE IF Len(r.body) = 0 THEN [none EXCEPT !.status = 400]
        ELSE [none EXCEPT !.kind = "publish",
                          !.subject = base \o EncodingInfix \o r.enc,
                          !.data = r.body]

\* the handler's code from its entry to its return ("response") or to its
\* call of nc.Publish ("publish")
WriteOutcome(r, base) ==
    LET enc  == ToLower(r.enc)
        none == [kind |-> "response", status |-> 0, subject |-> <<>>, data |-> <<>>]
    IN  IF r.method # "POST" THEN [none EXCEPT !.status = 405]
        ELSE IF enc # Snappy /\ enc # Zstd THEN [none EXCEPT !.status = 400]
        ELSE IF r.ctype # "application/x-protobuf" THEN [none EXCEPT !.status = 400]
        ELSE IF r.version # "0.1.0" THEN [none EXCEPT !.status = 400]
        ELSE IF r.readErr THEN [none EXCEPT !.status = 500]
        ELSE IF Len(r.body) = 0 THEN [none EXCEPT !.status = 400]
        ELSE [none EXCEPT !.kind = "publish",
                          !.subject = base \o EncodingInfix \o enc,
                          !.data = r.body]

\* the handler up to and including nc.Publish; publishErr: nc.Publish
\* returns an error
RemoteWriteHandler(r, publishErr) ==
    /\ running
    /\ wpc = "idle"
    /\ written' = written + 1
    /\ wreq' = <<r>>
    /\ LET out == WriteOutcome(r, topicBase)
           msg == [id |-> written + 1, subject |-> out.subject, data |-> out.data]
       IN  IF out.kind = "response"
           THEN /\ wresp' = <<[status |-> out.status]>>
                /\ UNCHANGED <<wpc, pub, relayInbox>>
           ELSE /\ pub' = Append(pub, [id |-> msg.id, subject |-> msg.subject,
                                        data |-> msg.data, err |-> publishErr])
                /\ IF publishErr
                   THEN /\ wresp' = <<[status |-> 500]>>
                        /\ UNCHANGED <<wpc, relayInbox>>
                   ELSE /\ wresp' = <<>>
                        /\ wpc' = "published"
                        /\ relayInbox' = PublishWrite(msg)
    /\ UNCHANGED <<startup, invocations, config,
                   bridge, responder, counters, lastErr, scrape,
                   relayTopic, topicRemoteWrite, kpc, post, relayed>>

\* a plausible slip: the success is answered with 200
RemoteWriteAcknowledgeOK ==
    /\ running
    /\ wpc = "published"
    /\ wresp' = <<[status |-> 200]>>
    /\ wpc' = "idle"
    /\ UNCHANGED <<startup, invocations, config,
                   bridge, responder, counters, lastErr, scrape,
                   written, wreq, pub, relay>>

\* a plausible slip: the handler answers once the relay is done with the
\* message, with the relay's outcome
RemoteWriteAcknowledgeAfterRelay ==
    /\ running
    /\ wpc = "published"
    /\ relayInbox = <<>>
    /\ kpc = "idle"
    /\ wresp' = <<[status |-> IF \E i \in 1..Len(relayed) :
                                    relayed[i].id = written /\ relayed[i].outcome # "relayed"
                              THEN 500 ELSE 204]>>
    /\ wpc' = "idle"
    /\ UNCHANGED <<startup, invocations, config,
                   bridge, responder, counters, lastErr, scrape,
                   written, wreq, pub, relay>>

\* nc.Publish returned nil: w.WriteHeader(http.StatusNoContent)
RemoteWriteAcknowledge ==
    /\ running
    /\ wpc = "published"
    /\ wresp' = <<[status |-> 204]>>
    /\ wpc' = "idle"
    /\ UNCHANGED <<startup, invocations, config,
                   bridge, responder, counters, lastErr, scrape,
                   written, wreq, pub, relay>>

(***************************************************************************)
(* the remote write subscription callback and RelayPrometheusRemoteWrite   *)
(***************************************************************************)
\* a plausible slip: zstd falls to the default like an unknown tag
RelayEncodingAllSnappy(parts) == Snappy

\* a plausible slip: an unknown tag is kept and refused
RelayEncodingNoDefault(parts) ==
    LET encKey == parts[Len(parts) - 1]
        encVal == parts[Len(parts)]
    IN  IF encKey = <<"e","n","c","o","d","i","n","g">> THEN encVal ELSE Snappy

\* a plausible slip: the last token is the tag whatever precedes it
RelayEncodingNoFallback(parts) ==
    LET encVal == parts[Len(parts)]
    IN  IF encVal = Snappy \/ encVal = Zstd THEN encVal ELSE Snappy

\* the content encoding the relay reads off the subject: the last token
\* after "encoding", snappy for any other subject and for an unknown token
RelayEncoding(parts) ==
    LET encKey == parts[Len(parts) - 1]
        encVal == parts[Len(parts)]
        tagged == IF encKey = <<"e","n","c","o","d","i","n","g">> THEN encVal ELSE Snappy
    IN  IF tagged = Snappy \/ tagged = Zstd THEN tagged ELSE Snappy

\* a plausible slip: the short subject is counted as a bad request, as the
\* exporter callback counts an empty topic
RelayPrometheusRemoteWriteStartCounting ==
    /\ kpc = "idle"
    /\ relayInbox # <<>>
    /\ relayInbox' = Tail(relayInbox)
    /\ LET msg   == Head(relayInbox)
           parts == Split(msg.subject, ".")
       IN  IF Len(parts) < 2
           THEN /\ relayed' = Append(relayed,
                        [id |-> msg.id, outcome |-> "not enough parts", status |-> "", body |-> <<>>,
                         err |-> <<[text |-> "Topic source does not have enough parts",
                                    about |-> msg.subject, status |-> "", body |-> <<>>]>>])
                /\ proxyReply' = Inc(proxyReply, <<msg.subject, "400">>)
                /\ UNCHANGED <<kpc, post>>
           ELSE IF RelayEncoding(parts) # Snappy
           THEN /\ relayed' = Append(relayed,
                        [id |-> msg.id, outcome |-> "unknown encoding", status |-> "", body |-> <<>>,
                         err |-> <<[text |-> "Unknown content encoding type",
                                    about |-> RelayEncoding(parts), status |-> "",
                                    body |-> <<>>]>>])
                /\ UNCHANGED <<kpc, post, proxyReply>>
           ELSE /\ post' = <<[id              |-> msg.id,
                              topic           |-> msg.subject,
                              url             |-> topicRemoteWrite,
                              contentType     |-> "application/x-protobuf",
                              contentEncoding |-> RelayEncoding(parts),
                              version         |-> "0.1.0",
                              body            |-> msg.data]>>
                /\ kpc' = "post"
                /\ UNCHANGED <<relayed, proxyReply>>
    /\ UNCHANGED <<startup, invocations, config,
                   bridge, responder, proxyRequest, lastErr, scrape, ingress,
                   relayTopic, topicRemoteWrite>>

\* the callback for the next message, up to client.Do
RelayPrometheusRemoteWriteStart ==
    /\ kpc = "idle"
    /\ relayInbox # <<>>
    /\ relayInbox' = Tail(relayInbox)
    /\ LET msg   == Head(relayInbox)
           parts == Split(msg.subject, ".")
       IN  IF Len(parts) < 2
           THEN /\ relayed' = Append(relayed,
                        [id |-> msg.id, outcome |-> "not enough parts", status |-> "", body |-> <<>>,
                         err |-> <<[text |-> "Topic source does not have enough parts",
                                    about |-> msg.subject, status |-> "", body |-> <<>>]>>])
                /\ UNCHANGED <<kpc, post>>
           ELSE IF RelayEncoding(parts) # Snappy
           THEN /\ relayed' = Append(relayed,
                        [id |-> msg.id, outcome |-> "unknown encoding", status |-> "", body |-> <<>>,
                         err |-> <<[text |-> "Unknown content encoding type",
                                    about |-> RelayEncoding(parts), status |-> "",
                                    body |-> <<>>]>>])
                /\ UNCHANGED <<kpc, post>>
           ELSE /\ post' = <<[id              |-> msg.id,
                              topic           |-> msg.subject,
                              url             |-> topicRemoteWrite,
                              contentType     |-> "application/x-protobuf",
                              contentEncoding |-> RelayEncoding(parts),
                              version         |-> "0.1.0",
                              body            |-> msg.data]>>
                /\ kpc' = "post"
                /\ UNCHANGED relayed
    /\ UNCHANGED <<startup, invocations, config,
                   bridge, responder, counters, lastErr, scrape, ingress,
                   relayTopic, topicRemoteWrite>>

\* status codes the remote write endpoint answers with
UpstreamCodes == {"200", "204", "500"}

\* what io.ReadAll returns of the endpoint's response body
UpstreamBodies == {<<>>, <<"out of order sample">>}

\* a plausible slip: only 200 counts as success
RelayPrometheusRemoteWriteDoneOnly200(code, body) ==
    /\ kpc = "post"
    /\ kpc' = "idle"
    /\ post' = <<>>
    /\ IF code = ""
       THEN /\ relayed' = Append(relayed,
                    [id |-> post[1].id, outcome |-> "send error", status |-> "", body |-> <<>>,
                     err |-> <<[text |-> "failed to send HTTP request", about |-> <<>>,
                                 status |-> "", body |-> <<>>]>>])
            /\ UNCHANGED proxyReply
       ELSE /\ proxyReply' = Inc(proxyReply, <<post[1].topic, code>>)
            /\ relayed' = Append(relayed,
                    IF code = "200"
                    THEN [id |-> post[1].id, outcome |-> "relayed", status |-> code, body |-> body,
                          err |-> <<>>]
                    ELSE [id |-> post[1].id, outcome |-> "non-success status",
                          status |-> code, body |-> body,
                          err |-> <<[text |-> "remote write endpoint returned non-success status",
                                      about |-> <<>>, status |-> code, body |-> body]>>])
    /\ UNCHANGED <<startup, invocations, config,
                   bridge, responder, proxyRequest, lastErr, scrape, ingress,
                   relayTopic, topicRemoteWrite, relayInbox>>

\* a plausible slip: the counter is incremented before the error check, under
\* code "0" when there is no response
RelayPrometheusRemoteWriteDoneCountingAll(code, body) ==
    /\ kpc = "post"
    /\ kpc' = "idle"
    /\ post' = <<>>
    /\ proxyReply' = Inc(proxyReply, <<post[1].topic, IF code = "" THEN "0" ELSE code>>)
    /\ relayed' = Append(relayed,
            IF code = ""
            THEN [id |-> post[1].id, outcome |-> "send error", status |-> "", body |-> <<>>,
                  err |-> <<[text |-> "failed to send HTTP request", about |-> <<>>,
                                 status |-> "", body |-> <<>>]>>]
            ELSE IF code \in {"200", "204"}
            THEN [id |-> post[1].id, outcome |-> "relayed", status |-> code, body |-> body,
                          err |-> <<>>]
            ELSE [id |-> post[1].id, outcome |-> "non-success status",
                          status |-> code, body |-> body,
                  err |-> <<[text |-> "remote write endpoint returned non-success status",
                                      about |-> <<>>, status |-> code, body |-> body]>>])
    /\ UNCHANGED <<startup, invocations, config,
                   bridge, responder, proxyRequest, lastErr, scrape, ingress,
                   relayTopic, topicRemoteWrite, relayInbox>>

\* client.Do returned: code is the endpoint's status code, "" when the
\* request could not be sent; body is what io.ReadAll read of the response
RelayPrometheusRemoteWriteDone(code, body) ==
    /\ kpc = "post"
    /\ kpc' = "idle"
    /\ post' = <<>>
    /\ IF code = ""
       THEN /\ relayed' = Append(relayed,
                    [id |-> post[1].id, outcome |-> "send error", status |-> "", body |-> <<>>,
                     err |-> <<[text |-> "failed to send HTTP request", about |-> <<>>,
                                 status |-> "", body |-> <<>>]>>])
            /\ UNCHANGED proxyReply
       ELSE /\ proxyReply' = Inc(proxyReply, <<post[1].topic, code>>)
            /\ relayed' = Append(relayed,
                    IF code \in {"200", "204"}
                    THEN [id |-> post[1].id, outcome |-> "relayed", status |-> code, body |-> body,
                          err |-> <<>>]
                    ELSE [id |-> post[1].id, outcome |-> "non-success status",
                          status |-> code, body |-> body,
                          err |-> <<[text |-> "remote write endpoint returned non-success status",
                                      about |-> <<>>, status |-> code, body |-> body]>>])
    /\ UNCHANGED <<startup, invocations, config,
                   bridge, responder, proxyRequest, lastErr, scrape, ingress,
                   relayTopic, topicRemoteWrite, relayInbox>>

(***************************************************************************)
(* main: the subscription file, the connection, the subscription loop      *)
(***************************************************************************)
\* a second exporter's topic and routes
OtherSubject == <<"n",".","b",".","9","1","0","0">>

OtherRoute == "http://b.localnet:9100/metrics"

MovedRoute == "http://target2.localnet:9100/metrics"

\* the arrays a subscription file that parses holds: none, one or two
\* records, two records of one topic, and a record whose topic the bus
\* refuses
StartupRecords ==
    LET a == [topic |-> ExampleSubjectMod, route |-> ExampleRoute]
        b == [topic |-> OtherSubject, route |-> OtherRoute]
        c == [topic |-> ExampleSubjectMod, route |-> MovedRoute]
        d == [topic |-> <<"n",".",".","b">>, route |-> OtherRoute]
    IN  {<<>>, <<a>>, <<a, b>>, <<a, c>>, <<d, a>>}

\* what main can find: os.Stat fails on -subs ("missing"), os.Open fails,
\* io.ReadAll fails, json.Unmarshal fails, or the file holds records; -creds
\* given or not; nats.Connect and http.ListenAndServe succeed or not
StartupEnvs ==
    {[file |-> f, records |-> <<>>, creds |-> c, connect |-> n, listen |-> l] :
        f \in {"missing", "unopenable", "unreadable", "malformed"},
        c \in BOOLEAN, n \in BOOLEAN, l \in BOOLEAN}
    \cup {[file |-> "found", records |-> r, creds |-> c, connect |-> n, listen |-> l] :
        r \in StartupRecords, c \in BOOLEAN, n \in BOOLEAN, l \in BOOLEAN}

\* logger.Fatal, log.Fatal: the process exits
Exited == [at |-> "exit", i |-> boot.i]

\* as main was before 0.2.0: the missing file is logged and opened all the same
MainLoadSubscriptionsOpening ==
    /\ running
    /\ boot.at = "stat"
    /\ IF env.file = "found"
       THEN /\ exporterSub' = env.records
            /\ boot' = [boot EXCEPT !.at = "connect"]
            /\ running' = TRUE
       ELSE /\ exporterSub' = exporterSub
            /\ boot' = Exited
            /\ running' = FALSE
    /\ UNCHANGED <<env, subscribed, invocations, topicBase, topicFmt, topicMap,
                   served, pc, req, resp, natsReq, natsReply, responder, counters,
                   lastErr, scrape, push>>

\* main, from os.Stat to json.Unmarshal
MainLoadSubscriptions ==
    /\ running
    /\ boot.at = "stat"
    /\ IF env.file = "missing"
       THEN \* "No subscription file skipping any subscriptions"
            /\ exporterSub' = exporterSub
            /\ boot' = [boot EXCEPT !.at = "connect"]
            /\ running' = TRUE
       ELSE IF env.file = "found"
       THEN /\ exporterSub' = env.records
            /\ boot' = [boot EXCEPT !.at = "connect"]
            /\ running' = TRUE
       ELSE \* os.Open, io.ReadAll or json.Unmarshal returned an error
            /\ exporterSub' = exporterSub
            /\ boot' = Exited
            /\ running' = FALSE
    /\ UNCHANGED <<env, subscribed, invocations, topicBase, topicFmt, topicMap,
                   served, pc, req, resp, natsReq, natsReply, responder, counters,
                   lastErr, scrape, push>>

\* main, from the -creds check to nats.Connect
MainConnect ==
    /\ running
    /\ boot.at = "connect"
    /\ IF env.creds /\ env.connect
       THEN boot' = [at |-> "loop", i |-> 1] /\ running' = TRUE
       ELSE boot' = Exited /\ running' = FALSE
    /\ UNCHANGED <<env, subscribed, invocations, config, served, pc, req, resp,
                   natsReq, natsReply, responder, counters, lastErr, scrape, push>>

\* the loop's body begins: the assignment topicMap[exporterSub[i].Topic] = ...
\* is under way, the map is being written
MainMapAssign ==
    /\ running
    /\ boot.at = "loop"
    /\ boot.i <= Len(exporterSub)
    /\ boot' = [boot EXCEPT !.at = "write"]
    /\ UNCHANGED <<env, subscribed, invocations, config, bridge, responder,
                   counters, lastErr, scrape, push>>

\* the table after the assignment of record i
Assigned(table, record) ==
    [t \in DOMAIN table \cup {record.topic} |->
        IF t = record.topic THEN record.route ELSE table[t]]

\* the assignment is complete
MainMapAssigned ==
    /\ running
    /\ boot.at = "write"
    /\ topicMap' = Assigned(topicMap, exporterSub[boot.i])
    /\ boot' = [boot EXCEPT !.at = "subscribe"]
    /\ UNCHANGED <<env, subscribed, invocations, topicBase, topicFmt, exporterSub,
                   bridge, responder, counters, lastErr, scrape, push>>

\* nc.Subscribe(exporterSub[i].Topic, callback): from its return on, the
\* callback runs for every message of the topic; an error is logged
MainSubscribe ==
    /\ running
    /\ boot.at = "subscribe"
    /\ subscribed' = IF BadSubject(exporterSub[boot.i].topic)
                     THEN subscribed
                     ELSE Append(subscribed, exporterSub[boot.i].topic)
    /\ boot' = [at |-> "loop", i |-> boot.i + 1]
    /\ UNCHANGED <<env, invocations, config, bridge, responder, counters, lastErr,
                   scrape, push>>

\* after the loop: the remote write subscription, the handlers and
\* log.Fatal(http.ListenAndServe(...)), which returns only with an error
MainListen ==
    /\ running
    /\ boot.at = "loop"
    /\ boot.i > Len(exporterSub)
    /\ IF env.listen
       THEN boot' = [boot EXCEPT !.at = "serve"] /\ running' = TRUE
       ELSE boot' = Exited /\ running' = FALSE
    /\ UNCHANGED <<env, subscribed, invocations, config, served, pc, req, resp,
                   natsReq, natsReply, responder, counters, lastErr, scrape, push>>

\* the subscriptions made so far that take the subject
Takers(subject) ==
    SelectSeq(subscribed, LAMBDA t : SubjectMatches(t, subject))

\* a bridge elsewhere publishes a request: each subscription made so far that
\* matches the subject gets the message, whereever main is
RemoteRequest(subject, data) ==
    /\ running
    /\ Takers(subject) # <<>>
    /\ inbox' = inbox \o [k \in 1..Len(Takers(subject)) |->
                            [id |-> 0, subject |-> subject, data |-> data]]
    /\ UNCHANGED <<startup, invocations, config, bridge, rpc, get, counters,
                   lastErr, scrape, push>>

\* the callback's lookup topicMap[msg.Subject] made while main's assignment
\* is under way, two goroutines on one map without a lock: the lookup sees
\* the map as it will be, or the runtime ends the process with "fatal error:
\* concurrent map read and map write"; that it sees the map as it was is
\* ProxyPrometheusRequestStart
ConcurrentMapRead(thrown) ==
    /\ running
    /\ boot.at = "write"
    /\ rpc = "idle"
    /\ inbox # <<>>
    /\ IF thrown
       THEN /\ running' = FALSE
            /\ boot' = Exited
            /\ UNCHANGED <<env, subscribed, invocations, config, served, pc, req,
                           resp, natsReq, natsReply, responder, counters, lastErr,
                           scrape, push>>
       ELSE ProxyPrometheusRequestStartIn(Assigned(topicMap, exporterSub[boot.i]))

(***************************************************************************)
(* the counters under concurrent callers                                   *)
(***************************************************************************)
\* handlers and callbacks running at once
MaxWorkers == 3

\* the label pairs the callers use
CounterLabels == {<<ExampleSubjectMod, "200">>, <<ExampleSubjectMod, "503">>}

\* a goroutine about to call With(labels).Inc() on one of the two vectors
Invocation(vec, labels) == [at |-> "called", vec |-> vec, labels |-> labels, seen |-> 0]

Invocations ==
    {Invocation(vec, labels) : vec \in {"requests_total", "replies_total"},
                               labels \in CounterLabels}

RECURSIVE InvocationsOf(_)
\* every group of n callers
InvocationsOf(n) ==
    IF n = 0 THEN {<<>>}
    ELSE {Append(s, v) : s \in InvocationsOf(n - 1), v \in Invocations}

\* a plausible slip: the value is loaded, and stored one higher in a second
\* step, with no lock held in between
CounterIncUnlocked(w) ==
    /\ w \in 1..Len(invocations)
    /\ LET v   == invocations[w]
           vec == IF v.vec = "requests_total" THEN proxyRequest ELSE proxyReply
           to  == [l \in DOMAIN vec \cup {v.labels} |->
                        IF l = v.labels THEN v.seen + 1 ELSE vec[l]]
       IN  \/ /\ v.at = "called"
              /\ invocations' = [invocations EXCEPT ![w].at = "loaded",
                                                    ![w].seen = Count(vec, v.labels)]
              /\ UNCHANGED counters
           \/ /\ v.at = "loaded"
              /\ invocations' = [invocations EXCEPT ![w].at = "done"]
              /\ proxyRequest' = (IF v.vec = "requests_total" THEN to ELSE proxyRequest)
              /\ proxyReply' = (IF v.vec = "replies_total" THEN to ELSE proxyReply)
    /\ UNCHANGED <<startup, config, bridge, responder, lastErr, scrape, push>>

\* proxyRequest.With(labels).Inc(), proxyReply.With(labels).Inc(): the
\* vector finds or makes the child under its lock and the child adds one
\* atomically
CounterInc(w) ==
    /\ w \in 1..Len(invocations)
    /\ invocations[w].at = "called"
    /\ invocations' = [invocations EXCEPT ![w].at = "done"]
    /\ LET v == invocations[w]
       IN  /\ proxyRequest' = (IF v.vec = "requests_total"
                               THEN Inc(proxyRequest, v.labels) ELSE proxyRequest)
           /\ proxyReply' = (IF v.vec = "replies_total"
                             THEN Inc(proxyReply, v.labels) ELSE proxyReply)
    /\ UNCHANGED <<startup, config, bridge, responder, lastErr, scrape, push>>

(***************************************************************************)
(* specifications                                                          *)
(***************************************************************************)
\* nothing has been received, sent or counted yet
Quiet ==
    /\ running = TRUE
    /\ served = 0
    /\ pc = "idle"
    /\ req = <<>>
    /\ resp = <<>>
    /\ natsReq = <<>>
    /\ natsReply = <<>>
    /\ inbox = <<>>
    /\ rpc = "idle"
    /\ get = <<>>
    /\ proxyRequest = <<>>
    /\ proxyReply = <<>>
    /\ lastErr = FALSE
    /\ scrape = <<>>
    /\ written = 0
    /\ wpc = "idle"
    /\ wreq = <<>>
    /\ wresp = <<>>
    /\ pub = <<>>
    /\ relayInbox = <<>>
    /\ kpc = "idle"
    /\ post = <<>>
    /\ relayed = <<>>

\* main has loaded the subscription file, connected, subscribed to every
\* record's topic and serves HTTP
InitServing(bases, subs) ==
    /\ topicBase \in bases
    /\ topicFmt \in TopicFmts
    /\ exporterSub \in subs
    /\ topicMap = TopicMapOf(exporterSub)
    /\ env = [file |-> "found", records |-> exporterSub, creds |-> TRUE,
              connect |-> TRUE, listen |-> TRUE]
    /\ boot = [at |-> "serve", i |-> Len(exporterSub) + 1]
    /\ subscribed = SelectSeq([i \in 1..Len(exporterSub) |-> exporterSub[i].topic],
                              LAMBDA t : ~BadSubject(t))
    /\ Quiet

InitWith(bases, subs) == InitServing(bases, subs) /\ invocations = <<>>

\* a process started without -remotewrite
NoRelay == relayTopic = topicBase /\ topicRemoteWrite = ""

Init == InitWith({DefaultTopicBase}, SubscriptionFiles(topicFmt)) /\ NoRelay

\* a collector's pull request arrives
Pull == served < MaxRequests /\ \E r \in Requests : ProxyRequestHandler(r)

Reply == RequestReplied

Fail == RequestFailed(lastErr)

\* the bus client records an error of the connection or of the server
BusError ==
    /\ running
    /\ ~lastErr
    /\ lastErr' = TRUE
    /\ UNCHANGED <<startup, invocations, config,
                   bridge, responder, counters, scrape, push>>

Deliver == ProxyPrometheusRequestStart

Scraped ==
    \/ \E body \in Bodies : ProxyPrometheusRequestDone("ok", body)
    \/ \E outcome \in {"send error", "read error"} :
            ProxyPrometheusRequestDone(outcome, <<>>)

Next == Pull \/ Reply \/ Fail \/ BusError \/ Deliver \/ Scraped

Spec == Init /\ [][Next]_vars

\* nc.Request returns, with the reply or with an error, within its timeout
SpecLive == Spec /\ WF_vars(Reply) /\ WF_vars(Fail)

\* the resolver: one pull request with any short Host value
InitResolve == InitWith(TopicBases, SubscriptionFiles(topicFmt)) /\ NoRelay

PullResolve == served = 0 /\ \E r \in ResolveRequests : ProxyRequestHandler(r)

NextResolve == PullResolve \/ Reply \/ Fail \/ Deliver \/ Scraped

SpecResolve == InitResolve /\ [][NextResolve]_vars

\* the push path: an ingress under -subjbase topicBase and a relaying
\* process under -subjbase relayTopic and -remotewrite topicRemoteWrite
InitPush ==
    /\ InitWith({DefaultTopicBase, RemoteBase}, {<<>>})
    /\ relayTopic \in RelayTopics \cup {topicBase}
    /\ topicRemoteWrite \in RemoteWriteURLs

\* an agent's push request arrives
Write ==
    /\ written < MaxPushes
    /\ \E r \in PushRequests, publishErr \in BOOLEAN : RemoteWriteHandler(r, publishErr)

Acknowledge == RemoteWriteAcknowledge

Relay == RelayPrometheusRemoteWriteStart

Posted ==
    \/ \E code \in UpstreamCodes, body \in UpstreamBodies :
            RelayPrometheusRemoteWriteDone(code, body)
    \/ RelayPrometheusRemoteWriteDone("", <<>>)

NextPush == Write \/ Acknowledge \/ Relay \/ Posted

SpecPush == InitPush /\ [][NextPush]_vars

\* subjects other publishers of the bus use: tagged and untagged ones, of
\* one token and of several
ForeignSubjects ==
    {<<"r">>, <<"r",".","s">>, <<"r",".","z","s","t","d">>,
     <<"e","n","c","o","d","i","n","g",".","s","n","a","p","p","y">>,
     <<"e","n","c","o","d","i","n","g",".","z","s","t","d">>,
     RemoteBase \o EncodingInfix \o Snappy,
     RemoteBase \o EncodingInfix \o Zstd,
     RemoteBase \o EncodingInfix \o <<"g","z","i","p">>,
     RemoteBase \o EncodingInfix \o <<"S","n","a","p","p","y">>,
     RemoteBase \o <<".","E","n","c","o","d","i","n","g",".","z","s","t","d">>,
     <<"r",".","e","n","c","o","d","i","n","g">>}

\* messages the relay has been handed so far
RelayMessages == Len(relayed) + Len(relayInbox) + (IF kpc = "post" THEN 1 ELSE 0)

\* a publisher of the bus (an ingress of this or an older version, or any
\* other client) publishes on a subject of the relay's subscription
ForeignPublish(subject, data) ==
    /\ RelaySubscribed
    /\ SubjectMatches(relayTopic, subject)
    /\ relayInbox' = Append(relayInbox,
            [id |-> RelayMessages + 1, subject |-> subject, data |-> data])
    /\ UNCHANGED <<startup, invocations, config,
                   bridge, responder, counters, lastErr, scrape, ingress,
                   relayTopic, topicRemoteWrite, kpc, post, relayed>>

\* the relay alone: a process under -remotewrite whose subscription takes
\* whatever is published below its subject
InitRelay ==
    /\ InitWith({RemoteBase}, {<<>>})
    /\ relayTopic \in {<<">">>, <<"r">>, <<"r",".",">">>, <<"*",".","*">>}
    /\ topicRemoteWrite \in RemoteWriteURLs \ {""}

Incoming ==
    /\ RelayMessages < MaxPushes
    /\ \E subject \in ForeignSubjects, data \in {<<"b1", "b2">>, <<>>} :
            ForeignPublish(subject, data)

NextRelay == Incoming \/ Relay \/ Posted

SpecRelay == InitRelay /\ [][NextRelay]_vars

\* callers of the counters, one to MaxWorkers of them, in a serving process
InitCounters ==
    /\ InitServing({DefaultTopicBase}, SubscriptionFiles(topicFmt))
    /\ NoRelay
    /\ invocations \in UNION {InvocationsOf(n) : n \in 1..MaxWorkers}

NextCounters == \E w \in 1..MaxWorkers : CounterInc(w)

SpecCounters == InitCounters /\ [][NextCounters]_vars

\* the process as main begins
InitStartup ==
    /\ topicBase \in {DefaultTopicBase, RemoteBase}
    /\ topicFmt = "mod"
    /\ exporterSub = <<>>
    /\ topicMap = TopicMapOf(<<>>)
    /\ env \in StartupEnvs
    /\ boot = [at |-> "stat", i |-> 1]
    /\ subscribed = <<>>
    /\ invocations = <<>>
    /\ Quiet
    /\ relayTopic = topicBase
    /\ topicRemoteWrite \in RemoteWriteURLs

\* requests of bridges elsewhere, for the two exporters
Asked ==
    /\ Len(inbox) + Total(proxyReply) + (IF rpc = "get" THEN 1 ELSE 0) < MaxRequests
    /\ \E subject \in {ExampleSubjectMod, OtherSubject} : RemoteRequest(subject, <<>>)

\* the callbacks run while the process does
DeliverRunning == running /\ ProxyPrometheusRequestStart

Race == \E thrown \in BOOLEAN : ConcurrentMapRead(thrown)

ScrapedRunning == running /\ Scraped

NextStartup ==
    \/ MainLoadSubscriptions \/ MainConnect \/ MainMapAssign \/ MainMapAssigned
    \/ MainSubscribe \/ MainListen
    \/ Asked \/ DeliverRunning \/ Race \/ ScrapedRunning

SpecStartup == InitStartup /\ [][NextStartup]_vars

\* both paths in one run: a process with exporter subscriptions, or one that
\* takes remote writes
InitOnce == Init \/ InitPush

\* the example's pull request and one without a host
OnceRequests == {PullRequest(<<>>, h, <<>>, <<>>) : h \in {ExampleHost, <<>>}}

\* the agent's push request and one the ingress refuses
OncePushes == {AgentRequest, [AgentRequest EXCEPT !.method = "GET"]}

PullOnce == served < MaxRequests /\ \E r \in OnceRequests : ProxyRequestHandler(r)

WriteOnce ==
    /\ written < MaxPushes
    /\ \E r \in OncePushes, publishErr \in BOOLEAN : RemoteWriteHandler(r, publishErr)

NextOnce ==
    \/ PullOnce \/ Reply \/ Fail \/ BusError \/ Deliver \/ Scraped
    \/ WriteOnce \/ Acknowledge \/ Relay \/ Posted

SpecOnce == InitOnce /\ [][NextOnce]_vars

\* a topic with a wildcard: every exporter on port 9100
WildcardTopic == DefaultTopicBase \o <<"*",".","9","1","0","0">>

WildcardRoute == "http://any.localnet:9100/metrics"

\* subscription files of a responder: one record, two records of one topic,
\* two records of two topics, and a record whose topic holds a wildcard
ResponderFiles ==
    LET a == [topic |-> ExampleSubjectMod, route |-> ExampleRoute]
        b == [topic |-> OtherSubject, route |-> OtherRoute]
        c == [topic |-> ExampleSubjectMod, route |-> MovedRoute]
        w == [topic |-> WildcardTopic, route |-> WildcardRoute]
    IN  {<<a>>, <<a, c>>, <<a, b>>, <<w>>}

\* the payloads of the requests: a query string with and without the timeout
ResponderPayloads ==
    {<<>>, << <<"module", <<"m">>>>, <<TimeoutKey, <<"5">>>> >>}

\* the bus hands a message of the subject to every subscription whose topic
\* takes it, each running the callback main gave it; sub is the record the
\* subscription was made for
Handed(subject, data) ==
    LET takers == SelectSeq([i \in 1..Len(exporterSub) |-> i],
                            LAMBDA i : /\ ~BadSubject(exporterSub[i].topic)
                                       /\ SubjectMatches(exporterSub[i].topic, subject))
    IN  [k \in 1..Len(takers) |->
            [id |-> 0, subject |-> subject, data |-> data, sub |-> takers[k]]]

\* a bridge elsewhere sends a request on the subject
BusRequest(subject, data) ==
    /\ Handed(subject, data) # <<>>
    /\ inbox' = inbox \o Handed(subject, data)
    /\ UNCHANGED <<startup, invocations, config, bridge, rpc, get, counters,
                   lastErr, scrape, push>>

\* ProxyPrometheusRequest is called with the empty topic, which no
\* subscription delivers
DirectCall(data) ==
    /\ inbox' = Append(inbox, [id |-> 0, subject |-> <<>>, data |-> data, sub |-> 0])
    /\ UNCHANGED <<startup, invocations, config, bridge, rpc, get, counters,
                   lastErr, scrape, push>>

\* a responder that serves, with the subscriptions of its file
InitResponder ==
    /\ InitWith({DefaultTopicBase}, ResponderFiles)
    /\ NoRelay

\* calls and scrapes under way or counted
Underway == Len(inbox) + Total(proxyReply) + (IF rpc = "get" THEN 1 ELSE 0)

Received ==
    /\ Underway < MaxRequests
    /\ \E subject \in {ExampleSubjectMod, OtherSubject}, data \in ResponderPayloads :
            BusRequest(subject, data)

Called ==
    /\ Underway < MaxRequests
    /\ \E data \in ResponderPayloads : DirectCall(data)

NextResponder == Received \/ Called \/ Deliver \/ Scraped

SpecResponder == InitResponder /\ [][NextResponder]_vars

(***************************************************************************)
(* what the specification says, stated without the handler's operators     *)
(***************************************************************************)
\* s with every upper-case letter replaced by its lower-case letter
LowerCased(s) ==
    [i \in 1..Len(s) |->
        IF \E k \in 1..26 : UpperChars[k] = s[i]
        THEN LowerChars[CHOOSE k \in 1..26 : UpperChars[k] = s[i]]
        ELSE s[i]]

Has(s, c) == \E i \in 1..Len(s) : s[i] = c

Reversed(s) == [i \in 1..Len(s) |-> s[Len(s) + 1 - i]]

\* the <<host, port>> pairs a host value splits into: host ":" port, or
\* "[" host "]" ":" port for a host that holds colons
HostPortPairs(value) ==
    {<<Slice(value, 1, i - 1), Slice(value, i + 1, Len(value))>> :
        i \in {i \in 1..Len(value) :
                /\ value[i] = ":"
                /\ \A j \in 1..Len(value) : j # i => value[j] \notin {":", "[", "]"}}}
    \cup
    {<<Slice(value, 2, i - 2), Slice(value, i + 1, Len(value))>> :
        i \in {i \in 3..Len(value) :
                /\ value[1] = "[" /\ value[i - 1] = "]" /\ value[i] = ":"
                /\ \A j \in 2..(i - 2) : value[j] \notin {"[", "]"}
                /\ \A j \in (i + 1)..Len(value) : value[j] \notin {":", "[", "]"}}}

\* the pairs with a host or a port in them
ProperPairs(value) == {hp \in HostPortPairs(value) : hp # <<<<>>, <<>>>>}

\* the host's dot-separated labels joined as the format says
Rendered(host, fmt) ==
    CASE fmt = "mod" -> Join(Split(host, "."), <<"_">>)
      [] fmt = "fwd" -> Join(Split(host, "."), <<".">>)
      [] fmt = "rev" -> Join(Reversed(Split(host, ".")), <<".">>)

\* base + rendered(host) + "." + port
SubjectFor(base, fmt, host, port) == base \o Rendered(host, fmt) \o <<".">> \o port

\* the request the handler is serving or served last
Pulling(r) == req = <<r>>

\* the handler called nc.Request for the request it is serving or served last
Requested == req # <<>> /\ natsReq # <<>>

(***************************************************************************)
(* C1: for every pull request whose host value splits into a host and a    *)
(* port, the subject of the bus request is base + rendered(lower-cased     *)
(* host) + "." + port: the labels joined with "_" (mod), with "." (fwd),   *)
(* with "." in reversed order (rev); Target1.Example.com:9100 gives the    *)
(* three subjects of the README.                                           *)
(***************************************************************************)
C1_SubjectOfHostAndPort ==
    \A r \in ResolveRequests :
        (Pulling(r) /\ r.xfh = <<>>) =>
            /\ \A hp \in ProperPairs(LowerCased(r.host)) :
                    /\ Requested
                    /\ natsReq[1].subject = SubjectFor(topicBase, topicFmt, hp[1], hp[2])
            /\ (r.host = ExampleHost /\ topicBase = DefaultTopicBase) =>
                    /\ Requested
                    /\ natsReq[1].subject = ExampleSubject(topicFmt)

C1_Witness ==
    /\ Pulling(PullRequest(<<>>, ExampleHost, <<>>, <<>>))
    /\ topicFmt = "rev"
    /\ Requested
    /\ natsReq[1].subject = ExampleSubjectRev

\* the subject the handler sends request r to under the current configuration
SubjectOf(r) == HandlerOutcomes[r, topicFmt, topicBase].subject

\* the <<host, port>> pair of every request: what its lower-cased Host value
\* splits into; none when it does not split, or splits into nothing (":")
PairsOf == [r \in ResolveRequests |-> ProperPairs(LowerCased(r.host))]

(***************************************************************************)
(* C2, as the specification states it: under a fixed format and base, any  *)
(* two pull requests with distinct (lower-cased host, port) pairs are sent *)
(* to distinct subjects, in each of the modes mod, fwd and rev.            *)
(***************************************************************************)
C2_CollisionFree ==
    \A r1 \in ResolveRequests :
        (Pulling(r1) /\ pc = "request") =>
            \A r2 \in ResolveRequests :
                \A hp1 \in PairsOf[r1], hp2 \in PairsOf[r2] :
                    hp1 # hp2 => SubjectOf(r2) # natsReq[1].subject

(***************************************************************************)
(* C2, amended: two pull requests with distinct (lower-cased host, port)   *)
(* pairs are sent to distinct subjects provided that neither port holds a  *)
(* "." and, in mode mod, that neither host holds a "_".                    *)
(***************************************************************************)
Separable(hp, fmt) ==
    /\ ~Has(hp[2], ".")
    /\ fmt = "mod" => ~Has(hp[1], "_")

C2_CollisionFreeAmended ==
    \A r1 \in ResolveRequests :
        (Pulling(r1) /\ pc = "request") =>
            \A r2 \in ResolveRequests :
                \A hp1 \in PairsOf[r1], hp2 \in PairsOf[r2] :
                    (hp1 # hp2 /\ Separable(hp1, topicFmt) /\ Separable(hp2, topicFmt))
                        => SubjectOf(r2) # natsReq[1].subject

C2_Witness ==
    /\ Pulling(PullRequest(<<>>, UnderscoreHost, <<>>, <<>>))
    /\ pc = "request"
    /\ topicFmt = "fwd"
    /\ natsReq[1].subject # SubjectOf(PullRequest(<<>>, ExampleHost, <<>>, <<>>))

(***************************************************************************)
(* C3: two pull requests whose host:port values differ only in the letter  *)
(* case of the host are sent to the same subject under the same base and   *)
(* format.                                                                 *)
(***************************************************************************)
\* v and w are the same up to the letter case of what precedes the last colon
SameButHostCase(v, w) ==
    /\ Len(v) = Len(w)
    /\ LowerCased(v) = LowerCased(w)
    /\ \A i \in 1..Len(v) :
            (\A j \in i..Len(v) : v[j] # ":" /\ w[j] # ":") => v[i] = w[i]

C3_CaseInsensitive ==
    \A r1 \in ResolveRequests :
        (Pulling(r1) /\ pc = "request") =>
            \A r2 \in ResolveRequests :
                (r2.xfh = <<>> /\ SameButHostCase(r1.host, r2.host)) =>
                    /\ HandlerOutcomes[r2, topicFmt, topicBase].kind = "request"
                    /\ SubjectOf(r2) = natsReq[1].subject

C3_Witness ==
    /\ Pulling(PullRequest(<<>>, ExampleHost, <<>>, <<>>))
    /\ pc = "request"
    /\ topicFmt = "mod"
    /\ natsReq[1].subject = ExampleSubjectMod

(***************************************************************************)
(* C4: a pull request with a non-empty x-forwarded-host header is sent to  *)
(* the subject resolved from the header's value; only a request without    *)
(* the header is resolved from its Host field.                             *)
(***************************************************************************)
C4_ForwardedHostResolved ==
    \A r \in Requests :
        Pulling(r) =>
            \A hp \in ProperPairs(LowerCased(IF r.xfh # <<>> THEN r.xfh ELSE r.host)) :
                /\ Requested
                /\ natsReq[1].subject = SubjectFor(topicBase, topicFmt, hp[1], hp[2])

(***************************************************************************)
(* C5: a pull request with no x-forwarded-host header and an empty Host    *)
(* is answered with status 502; no bus request is issued for it and no     *)
(* request counter is incremented.                                         *)
(***************************************************************************)
EmptyHost(r) == r.xfh = <<>> /\ r.host = <<>>

C5_EmptyHostAnswered502 ==
    /\ [](\A r \in Requests :
            (Pulling(r) /\ EmptyHost(r)) =>
                /\ resp # <<>> /\ resp[1].status = 502
                /\ pc = "idle"
                /\ natsReq = <<>>)
    /\ [][\A r \in Requests :
            (EmptyHost(r) /\ served' = served + 1 /\ req' = <<r>>) =>
                /\ inbox' = inbox
                /\ natsReply' = <<>>
                /\ proxyRequest' = proxyRequest
                /\ proxyReply' = proxyReply]_vars

C5_Witness ==
    /\ \E r \in Requests : Pulling(r) /\ EmptyHost(r)
    /\ resp # <<>> /\ resp[1].status = 502
    /\ served = 2
    /\ Total(proxyRequest) = 1

(***************************************************************************)
(* C6: when the host value holds no port, the whole value is the host, the *)
(* port is 80 and the bus request goes to base + renderedHost + ".80".     *)
(***************************************************************************)
C6_NoPortDefaultsTo80 ==
    \A r \in ResolveRequests :
        (Pulling(r) /\ r.xfh = <<>> /\ r.host # <<>> /\ ~Has(r.host, ":")) =>
            /\ Requested
            /\ natsReq[1].subject =
                    SubjectFor(topicBase, topicFmt, LowerCased(r.host), <<"8", "0">>)

(***************************************************************************)
(* C7: the timeout of the bus request is N seconds when the header         *)
(* x-prometheus-scrape-timeout-seconds parses as the integer N, and 10     *)
(* seconds when the header is absent or does not parse as an integer.      *)
(***************************************************************************)
IsInteger(h) ==
    LET digits == IF Len(h) > 0 /\ h[1] \in {"+", "-"} THEN Tail(h) ELSE h
    IN  Len(digits) > 0 /\ \A i \in 1..Len(digits) : IsDigit(digits[i])

RECURSIVE WithoutLeadingZeros(_)
WithoutLeadingZeros(digits) ==
    IF Len(digits) > 1 /\ digits[1] = "0" THEN WithoutLeadingZeros(Tail(digits)) ELSE digits

\* the decimal numeral of N seconds in nanoseconds, for the integer header h
NanosecondsOf(h) ==
    LET digits == WithoutLeadingZeros(IF h[1] \in {"+", "-"} THEN Tail(h) ELSE h)
    IN  IF digits = <<"0">> THEN digits
        ELSE (IF h[1] = "-" THEN <<"-">> ELSE <<>>)
             \o digits \o <<"0","0","0","0","0","0","0","0","0">>

C7_TimeoutFromHeader ==
    \A r \in Requests :
        (Pulling(r) /\ Requested) =>
            Itoa(natsReq[1].timeout) =
                IF IsInteger(r.timeoutHdr) THEN NanosecondsOf(r.timeoutHdr)
                ELSE <<"1","0","0","0","0","0","0","0","0","0","0">>

(***************************************************************************)
(* C8: the timeout the responder applies to its HTTP GET equals the        *)
(* timeout the bridge applied to the bus request of the same pull, for     *)
(* every header value and every query string, also one that already holds  *)
(* the key x-prometheus-scrape-timeout-seconds.                            *)
(***************************************************************************)
C8_SameTimeoutOnBothLegs ==
    (rpc = "get" /\ natsReq # <<>> /\ get[1].id = natsReq[1].id) =>
        get[1].timeout = natsReq[1].timeout

(***************************************************************************)
(* C9: the payload of the bus request holds exactly one occurrence of the  *)
(* key x-prometheus-scrape-timeout-seconds, also when the query string of  *)
(* the request already holds that key.                                     *)
(***************************************************************************)
C9_OneTimeoutKey ==
    Requested =>
        Cardinality({i \in 1..Len(natsReq[1].data) : natsReq[1].data[i][1] = TimeoutKey}) = 1

(***************************************************************************)
(* C10: when the bus request of a pull returns a reply, the bridge answers *)
(* with status 200, content type text/plain and a body equal to the reply  *)
(* payload, and increments requests_total for (subject, "200").            *)
(***************************************************************************)
C10_ReplyCopied ==
    [][(pc = "request" /\ natsReply # <<>> /\ pc' # "request") =>
            /\ resp' # <<>>
            /\ resp'[1].status = 200
            /\ resp'[1].contentType = "text/plain"
            /\ resp'[1].body = natsReply[1].data
            /\ Count(proxyRequest', <<natsReq[1].subject, "200">>)
                    = Count(proxyRequest, <<natsReq[1].subject, "200">>) + 1]_vars

C10_Witness ==
    /\ resp # <<>>
    /\ resp[1].status = 200
    /\ resp[1].body = <<"up 1">>
    /\ served = 2
    /\ \E fmt \in TopicFmts : Count(proxyRequest, <<ExampleSubject(fmt), "200">>) = 2

(***************************************************************************)
(* C11: when the bus request of a pull fails (timeout or no responder)     *)
(* while the bus client reports no last error, the bridge answers 503,     *)
(* increments requests_total for (subject, "503") and nothing else, and    *)
(* the process keeps serving.                                              *)
(***************************************************************************)
C11_FailureAnswered503 ==
    [][(pc = "request" /\ natsReply = <<>> /\ ~lastErr /\ pc' # "request") =>
            /\ running'
            /\ pc' = "idle"
            /\ resp' # <<>>
            /\ resp'[1].status = 503
            /\ Count(proxyRequest', <<natsReq[1].subject, "503">>)
                    = Count(proxyRequest, <<natsReq[1].subject, "503">>) + 1
            /\ Total(proxyRequest') = Total(proxyRequest) + 1]_vars

\* a pull was answered 503 and counted, and the next pull is being served
C11_Witness ==
    /\ served = 2
    /\ pc = "request"
    /\ ~lastErr
    /\ Count(proxyRequest, <<ExampleSubject(topicFmt), "503">>) = 1

(***************************************************************************)
(* C12: when the bus request of a pull fails while the bus client reports  *)
(* a last error, the process terminates: no response is written for that   *)
(* request and no counter is incremented, then or later.                   *)
(***************************************************************************)
C12_LastErrorTerminates ==
    /\ [][(pc = "request" /\ natsReply = <<>> /\ lastErr /\ pc' # "request") =>
            /\ ~running'
            /\ resp' = <<>>
            /\ proxyRequest' = proxyRequest
            /\ proxyReply' = proxyReply]_vars
    /\ [][~running => (resp' = resp /\ proxyRequest' = proxyRequest /\ served' = served)]_vars

\* the process exited out of a failed bus request, after an answered pull
C12_Witness ==
    /\ ~running
    /\ pc = "fatal"
    /\ lastErr
    /\ served = 2
    /\ natsReq # <<>>
    /\ resp = <<>>
    /\ Total(proxyRequest) = 1

(***************************************************************************)
(* C13: the process exits from a handler only when a bus request failed    *)
(* and the bus client reports a last error; no header, host, query or body *)
(* of an inbound request and no inbound bus message makes it exit.         *)
(***************************************************************************)
C13_ExitOnlyOnLastError ==
    [][(running /\ ~running') => (pc = "request" /\ natsReply = <<>> /\ lastErr)]_vars

(***************************************************************************)
(* C14: when the responder's HTTP GET fails (the request could not be sent *)
(* or the body could not be read) no reply is sent for that request: the   *)
(* bridge, still waiting, has no reply message to receive.                 *)
(***************************************************************************)
C14_NoReplyAfterFailedGet ==
    (/\ scrape # <<>>
     /\ scrape[1].outcome # "ok"
     /\ pc = "request"
     /\ natsReq # <<>>
     /\ natsReq[1].id = scrape[1].id) => natsReply = <<>>

(***************************************************************************)
(* C15: when the responder's HTTP GET for a pull failed, the status the    *)
(* collector receives for that pull is not a 2xx status.                   *)
(***************************************************************************)
C15_FailedGetNeverAnswered2xx ==
    (/\ scrape # <<>>
     /\ scrape[1].outcome # "ok"
     /\ pc = "idle"
     /\ natsReq # <<>>
     /\ natsReq[1].id = scrape[1].id
     /\ resp # <<>>) => resp[1].status \notin 200..299

\* the pairs of a query string, those of key left out, grouped by key in
\* the order of keys and, within a key, in their order in the query
PairsWithout(pairs, key, keys) ==
    LET Of(k) == SelectSeq(pairs, LAMBDA p : p[1] = k /\ k # key)
        Grouped[n \in 0..Len(keys)] == IF n = 0 THEN <<>> ELSE Grouped[n - 1] \o Of(keys[n])
    IN  Grouped[Len(keys)]

(***************************************************************************)
(* C16: the URL the responder requests is the target URL configured for    *)
(* the subject, "?", and the payload re-encoded without any entry of key   *)
(* x-prometheus-scrape-timeout-seconds, every other key and value kept.    *)
(***************************************************************************)
C16_TargetURLAndQuery ==
    (rpc = "get" /\ natsReq # <<>> /\ natsReq[1].id = get[1].id) =>
        /\ \E i \in 1..Len(exporterSub) :
                /\ exporterSub[i].topic = natsReq[1].subject
                /\ exporterSub[i].route = get[1].url
        /\ get[1].query = PairsWithout(natsReq[1].data, TimeoutKey, SortedKeys)
        /\ \A i \in 1..Len(get[1].query) : get[1].query[i][1] # TimeoutKey
        /\ \A i \in 1..Len(natsReq[1].data) :
                natsReq[1].data[i][1] # TimeoutKey =>
                    \E j \in 1..Len(get[1].query) : get[1].query[j] = natsReq[1].data[i]

\* the GET for a payload that holds the timeout twice and two other keys
C16_Witness ==
    /\ rpc = "get"
    /\ natsReq # <<>>
    /\ natsReq[1].id = get[1].id
    /\ Cardinality({i \in 1..Len(natsReq[1].data) : natsReq[1].data[i][1] = TimeoutKey}) = 2
    /\ Len(get[1].query) = 2
    /\ get[1].url = ExampleRoute

(***************************************************************************)
(* what the specification says of the push path                            *)
(***************************************************************************)
\* the push request the ingress is serving or served last
Pushing(r) == wreq = <<r>>

\* nc.Publish was called for the request the ingress is serving or served last
PublishCalled == pub # <<>> /\ pub[Len(pub)].id = written

\* the call of nc.Publish for that request returned no error
Published == PublishCalled /\ ~pub[Len(pub)].err

\* the three headers of a remote write, the content encoding as sent
HeadersAsSpecified(r) ==
    /\ r.enc \in {<<"s","n","a","p","p","y">>, <<"z","s","t","d">>}
    /\ r.ctype = "application/x-protobuf"
    /\ r.version = "0.1.0"

\* the same, the content encoding in any letter case
HeadersInAnyCase(r) ==
    /\ LowerCased(r.enc) \in {<<"s","n","a","p","p","y">>, <<"z","s","t","d">>}
    /\ r.ctype = "application/x-protobuf"
    /\ r.version = "0.1.0"

(***************************************************************************)
(* C17: the push ingress calls nc.Publish only for a request with method   *)
(* POST, Content-Encoding snappy or zstd, Content-Type                     *)
(* application/x-protobuf, X-Prometheus-Remote-Write-Version 0.1.0 and a   *)
(* non-empty body; any other request causes no publish.                    *)
(***************************************************************************)
C17_PublishOnlyIfValid ==
    \A r \in PushRequests :
        (Pushing(r) /\ PublishCalled) =>
            /\ r.method = "POST"
            /\ HeadersAsSpecified(r)
            /\ ~r.readErr /\ Len(r.body) > 0

(***************************************************************************)
(* C17, amended: as C17, the Content-Encoding being snappy or zstd in any  *)
(* letter case; and a step that serves any other request leaves the        *)
(* published messages as they were.                                        *)
(***************************************************************************)
C17_PublishOnlyIfValidInAnyCase ==
    /\ [](\A r \in PushRequests :
            (Pushing(r) /\ PublishCalled) =>
                /\ r.method = "POST"
                /\ HeadersInAnyCase(r)
                /\ ~r.readErr /\ Len(r.body) > 0)
    /\ [][pub' # pub =>
            /\ wreq' # <<>> /\ written' = written + 1
            /\ wreq'[1].method = "POST" /\ HeadersInAnyCase(wreq'[1])
            /\ ~wreq'[1].readErr /\ Len(wreq'[1].body) > 0]_vars

\* a request was published, then one with Content-Encoding: gzip was not
C17_Witness ==
    /\ written = 2
    /\ Len(pub) = 1
    /\ wreq # <<>>
    /\ wreq[1].method = "POST"
    /\ wreq[1].enc = <<"g","z","i","p">>
    /\ wresp # <<>>
    /\ wresp[1].status = 400

(***************************************************************************)
(* C18: the status of the push ingress is 405 for a method other than      *)
(* POST, 400 for a POST with a header mismatch or an empty body, 500 when  *)
(* the publish call fails, and 204 exactly when the publish call           *)
(* succeeded: no 204 for a request that was not published.                 *)
(***************************************************************************)
C18_IngressStatus ==
    \A r \in PushRequests :
        (Pushing(r) /\ wpc = "idle") =>
            /\ wresp # <<>>
            /\ r.method # "POST" => wresp[1].status = 405
            /\ (r.method = "POST" /\ ~HeadersInAnyCase(r)) => wresp[1].status = 400
            /\ (r.method = "POST" /\ HeadersInAnyCase(r) /\ ~r.readErr /\ Len(r.body) = 0)
                    => wresp[1].status = 400
            /\ (PublishCalled /\ pub[Len(pub)].err) => wresp[1].status = 500
            /\ wresp[1].status = 204 <=> Published
            /\ wresp[1].status \in {204, 400, 405, 500}

\* a request answered 500 for its failed publish after one answered 204
C18_Witness ==
    /\ written = 2
    /\ wpc = "idle"
    /\ Len(pub) = 2
    /\ ~pub[1].err
    /\ pub[2].err
    /\ wresp # <<>>
    /\ wresp[1].status = 500

\* base + ".encoding." + tag
Tagged(base, tag) == base \o <<".","e","n","c","o","d","i","n","g",".">> \o tag

(***************************************************************************)
(* C19: every message the push ingress publishes carries the request's     *)
(* body unchanged and goes to base + ".encoding." + tag, the tag being the *)
(* content encoding of that request as validated, always snappy or zstd.   *)
(***************************************************************************)
C19_PublishedSubjectAndBody ==
    /\ \A i \in 1..Len(pub) :
            pub[i].subject \in {Tagged(topicBase, <<"s","n","a","p","p","y">>),
                                Tagged(topicBase, <<"z","s","t","d">>)}
    /\ \A r \in PushRequests :
            (Pushing(r) /\ PublishCalled) =>
                /\ pub[Len(pub)].data = r.body
                /\ pub[Len(pub)].subject = Tagged(topicBase, LowerCased(r.enc))

\* a snappy and a zstd message published, the second sent as "ZSTD"
C19_Witness ==
    /\ Len(pub) = 2
    /\ pub[1].subject = Tagged(topicBase, <<"s","n","a","p","p","y">>)
    /\ pub[2].subject = Tagged(topicBase, <<"z","s","t","d">>)
    /\ wreq # <<>>
    /\ wreq[1].enc = <<"Z","S","T","D">>
    /\ pub[2].data = wreq[1].body

\* the relay's callback ended for the message of the request being served
RelayEnded(outcomes) ==
    \E i \in 1..Len(relayed) : relayed[i].id = written /\ relayed[i].outcome \in outcomes

(***************************************************************************)
(* C20: the ingress writes its 204 before the relay has finished           *)
(* forwarding the payload, in every execution, and its status is the same  *)
(* whatever the relay's outcome.                                           *)
(***************************************************************************)
C20_AcknowledgedBeforeRelayEnds ==
    /\ RelayEnded({"relayed"}) => wpc # "published"
    /\ (wpc = "idle" /\ Published) => (wresp # <<>> /\ wresp[1].status = 204)

(***************************************************************************)
(* C20, amended: the ingress never waits for the relay and never learns    *)
(* its outcome: once nc.Publish has returned nil the 204 can be written    *)
(* at once, whether no relay is subscribed, the message is still queued,   *)
(* the POST is in flight, or the relay has already forwarded or dropped    *)
(* it; the status written is 204 in all these cases, and no step of the    *)
(* relay changes a response. The relay may end before or after the 204.    *)
(***************************************************************************)
C20_AcknowledgedWhateverTheRelay ==
    /\ [](wpc = "published" =>
            ENABLED (NextPush /\ wpc' = "idle" /\ wresp' = <<[status |-> 204]>>))
    /\ []((wpc = "idle" /\ Published) => (wresp # <<>> /\ wresp[1].status = 204))
    /\ [][(relayed' # relayed \/ kpc' # kpc) => (wresp' = wresp /\ wpc' = wpc)]_vars
    /\ [][(wpc = "published" /\ wresp' # wresp) => wresp' = <<[status |-> 204]>>]_vars

\* the 204 written after the relay got a non-success status for the message
C20_Witness ==
    /\ wpc = "idle"
    /\ Published
    /\ wresp # <<>>
    /\ wresp[1].status = 204
    /\ RelayEnded({"non-success status"})

(***************************************************************************)
(* what the specification says of the relay                                *)
(***************************************************************************)
\* s ends with the characters of suffix
EndsWith(s, suffix) ==
    /\ Len(s) >= Len(suffix)
    /\ \A i \in 1..Len(suffix) : s[Len(s) - Len(suffix) + i] = suffix[i]

\* the positions of the dots of s
DotsOf(s) == {i \in 1..Len(s) : s[i] = "."}

\* the number of dot-separated segments of s
SegmentCount(s) == Cardinality(DotsOf(s)) + 1

\* the n-th segment of s from the end, 1 for the last
SegmentFromEnd(s, n) ==
    LET ends   == DotsOf(s) \cup {Len(s) + 1}
        starts == DotsOf(s) \cup {0}
        hi     == CHOOSE e \in ends : Cardinality({d \in ends : d > e}) = n - 1
        lo     == CHOOSE b \in starts : b < hi /\ \A d \in starts : d < hi => d <= b
    IN  [i \in 1..(hi - lo - 1) |-> s[lo + i]]

\* the callback takes the next message in this step
RelayTakes == relayInbox # <<>> /\ relayInbox' = Tail(relayInbox)

\* in this step the callback returns an error without sending anything
RelayAborts ==
    /\ kpc' = "idle"
    /\ post' = <<>>
    /\ Len(relayed') = Len(relayed) + 1
    /\ relayed'[Len(relayed')].id = Head(relayInbox).id
    /\ relayed'[Len(relayed')].err # <<>>
    /\ relayed'[Len(relayed')].status = ""

\* in this step the callback sends the message as a snappy remote write
RelayForwardsAsSnappy ==
    /\ kpc' = "post"
    /\ relayed' = relayed
    /\ post' # <<>>
    /\ post'[1].url = topicRemoteWrite
    /\ post'[1].body = Head(relayInbox).data
    /\ post'[1].contentEncoding = <<"s","n","a","p","p","y">>
    /\ post'[1].contentType = "application/x-protobuf"
    /\ post'[1].version = "0.1.0"

(***************************************************************************)
(* C21: a message whose subject ends in .encoding.zstd is refused by the   *)
(* relay with no HTTP POST, and one whose subject ends in .encoding.snappy *)
(* is sent as an HTTP POST of the message bytes with Content-Encoding:     *)
(* snappy, Content-Type: application/x-protobuf and                        *)
(* X-Prometheus-Remote-Write-Version: 0.1.0.                               *)
(***************************************************************************)
C21_ZstdRefusedSnappyForwarded ==
    [][RelayTakes =>
        /\ EndsWith(Head(relayInbox).subject,
                    <<".","e","n","c","o","d","i","n","g",".","z","s","t","d">>)
                => RelayAborts
        /\ EndsWith(Head(relayInbox).subject,
                    <<".","e","n","c","o","d","i","n","g",".","s","n","a","p","p","y">>)
                => RelayForwardsAsSnappy]_vars

\* a snappy message in its POST after a zstd message was refused
C21_Witness ==
    /\ kpc = "post"
    /\ post[1].topic = <<"r",".","s",".","e","n","c","o","d","i","n","g",".",
                         "s","n","a","p","p","y">>
    /\ post[1].body = <<"b1", "b2">>
    /\ Len(relayed) = 1
    /\ relayed[1].err # <<>>
    /\ relayed[1].err[1].text = "Unknown content encoding type"
    /\ relayed[1].err[1].about = <<"z","s","t","d">>

\* the subject's last two segments are encoding and a tag
Tagged2(subject) ==
    /\ SegmentCount(subject) >= 2
    /\ SegmentFromEnd(subject, 2) = <<"e","n","c","o","d","i","n","g">>

(***************************************************************************)
(* C22: for a message whose last two subject segments are encoding and a   *)
(* tag the relay forwards only when the tag is snappy; with any other tag  *)
(* (zstd, gzip, ...) it returns an error and sends nothing.                *)
(***************************************************************************)
C22_OnlySnappyTagForwarded ==
    [][(RelayTakes /\ Tagged2(Head(relayInbox).subject)) =>
        IF SegmentFromEnd(Head(relayInbox).subject, 1) = <<"s","n","a","p","p","y">>
        THEN RelayForwardsAsSnappy
        ELSE RelayAborts]_vars

(***************************************************************************)
(* C22, amended: for a message whose last two subject segments are         *)
(* encoding and a tag the relay refuses the tag zstd and nothing else:     *)
(* with the tag snappy, and with any tag that is neither snappy nor zstd   *)
(* (gzip, Snappy, ...), it forwards the message with Content-Encoding:     *)
(* snappy.                                                                 *)
(***************************************************************************)
C22_OnlyZstdTagRefused ==
    [][(RelayTakes /\ Tagged2(Head(relayInbox).subject)) =>
        IF SegmentFromEnd(Head(relayInbox).subject, 1) = <<"z","s","t","d">>
        THEN RelayAborts
        ELSE RelayForwardsAsSnappy]_vars

\* a message tagged gzip in its POST
C22_Witness ==
    /\ kpc = "post"
    /\ post[1].topic = <<"r",".","s",".","e","n","c","o","d","i","n","g",".",
                         "g","z","i","p">>
    /\ post[1].contentEncoding = <<"s","n","a","p","p","y">>

(***************************************************************************)
(* C23: for a message with at least two subject segments whose             *)
(* second-to-last segment is not literally encoding the relay falls back   *)
(* to snappy and forwards the message with Content-Encoding: snappy.       *)
(***************************************************************************)
C23_FallbackToSnappy ==
    [][(/\ RelayTakes
        /\ SegmentCount(Head(relayInbox).subject) >= 2
        /\ SegmentFromEnd(Head(relayInbox).subject, 2) # <<"e","n","c","o","d","i","n","g">>)
            => RelayForwardsAsSnappy]_vars

\* the message of subject r.zstd in its POST
C23_Witness ==
    /\ kpc = "post"
    /\ post[1].topic = <<"r",".","z","s","t","d">>
    /\ post[1].contentEncoding = <<"s","n","a","p","p","y">>
    /\ post[1].body = <<"b1", "b2">>

(***************************************************************************)
(* C24: a message whose subject has fewer than two dot-separated segments  *)
(* makes the relay return an error, with no HTTP POST and no counter       *)
(* incremented.                                                            *)
(***************************************************************************)
C24_ShortSubjectRefused ==
    [][(RelayTakes /\ SegmentCount(Head(relayInbox).subject) < 2) =>
            /\ RelayAborts
            /\ proxyReply' = proxyReply
            /\ proxyRequest' = proxyRequest]_vars

\* the message of subject r was refused and nothing was counted
C24_Witness ==
    /\ Len(relayed) = 1
    /\ relayed[1].err # <<>>
    /\ relayed[1].err[1].text = "Topic source does not have enough parts"
    /\ relayed[1].err[1].about = <<"r">>
    /\ kpc = "idle"
    /\ post = <<>>
    /\ proxyReply = <<>>

\* the callback's HTTP POST ends in this step
PostEnds == kpc = "post" /\ kpc' = "idle"

(***************************************************************************)
(* C25: the relay returns no error exactly when the endpoint answered 200  *)
(* or 204; for any other status it returns an error that carries the       *)
(* status and the response body.                                           *)
(***************************************************************************)
C25_SuccessIs200Or204 ==
    /\ \A i \in 1..Len(relayed) :
            /\ relayed[i].err = <<>> <=> relayed[i].status \in {"200", "204"}
            /\ relayed[i].status \notin {"", "200", "204"} =>
                    /\ relayed[i].err # <<>>
                    /\ relayed[i].err[1].status = relayed[i].status
                    /\ relayed[i].err[1].body = relayed[i].body

\* a POST answered 204 was a success after one answered 500 was an error
C25_Witness ==
    /\ Len(relayed) = 2
    /\ relayed[1].status = "500"
    /\ relayed[1].body = <<"out of order sample">>
    /\ relayed[1].err # <<>>
    /\ relayed[2].status = "204"
    /\ relayed[2].err = <<>>

(***************************************************************************)
(* C26: when the POST fails at transport level the relay increments no     *)
(* counter; when it succeeds the relay increments replies_total once, for  *)
(* the subject of the message and the status code of the endpoint, and     *)
(* nothing else.                                                           *)
(***************************************************************************)
C26_ReplyCountedOncePerAnswer ==
    [][PostEnds =>
        LET last == relayed'[Len(relayed')]
        IN  /\ Len(relayed') = Len(relayed) + 1
            /\ proxyRequest' = proxyRequest
            /\ last.status = "" => proxyReply' = proxyReply
            /\ last.status \in {"200", "204"} =>
                    /\ Count(proxyReply', <<post[1].topic, last.status>>)
                            = Count(proxyReply, <<post[1].topic, last.status>>) + 1
                    /\ Total(proxyReply') = Total(proxyReply) + 1]_vars

\* one answered POST counted, then a POST that could not be sent not counted
C26_Witness ==
    /\ Len(relayed) = 2
    /\ relayed[1].status = "200"
    /\ relayed[2].status = ""
    /\ relayed[2].err # <<>>
    /\ relayed[2].err[1].text = "failed to send HTTP request"
    /\ Total(proxyReply) = 1

(***************************************************************************)
(* what the specification says of concurrent callers and of startup        *)
(***************************************************************************)
\* every caller has returned from Inc
AllReturned == \A w \in 1..Len(invocations) : invocations[w].at = "done"

\* the callers of one vector with one label pair
CallersOf(vec, labels) ==
    {w \in 1..Len(invocations) :
        invocations[w].vec = vec /\ invocations[w].labels = labels}

CallbackLooksUp == running /\ Len(inbox') < Len(inbox)

(***************************************************************************)
(* C28: the route table is read-only after the initial load: no responder  *)
(* callback reads the table while startup is still writing an entry,       *)
(* however message delivery interleaves with the startup loop.             *)
(***************************************************************************)
C28_NoLookupWhileMainWrites == [][CallbackLooksUp => boot.at # "write"]_vars

(***************************************************************************)
(* C29: no operation is retried, whatever its outcome: each inbound pull   *)
(* request issues at most one bus request (a request message is published  *)
(* only in the step the pull request arrives in, once, under its id); each *)
(* bus request delivered to the responder causes at most one HTTP GET (a   *)
(* GET begins only by taking the next message off the subscription and its *)
(* end, whatever the outcome, ends the callback); each accepted push       *)
(* causes at most one publish (only in the step the push arrives in, once,  *)
(* under its id); each relayed message causes at most one HTTP POST (a     *)
(* POST begins only by taking the next message and its end ends the        *)
(* callback).                                                              *)
(***************************************************************************)
C29_NothingRetried ==
    /\ [][(natsReq' # natsReq \/ Len(inbox') > Len(inbox)) =>
            /\ served' = served + 1
            /\ natsReq' # <<>> => natsReq'[1].id = served'
            /\ Len(inbox') > Len(inbox) =>
                /\ natsReq' # <<>>
                /\ inbox' = Append(inbox, [id |-> served',
                                           subject |-> natsReq'[1].subject,
                                           data |-> natsReq'[1].data])]_vars
    /\ [][(get' # get /\ get' # <<>>) =>
            /\ rpc = "idle" /\ get = <<>>
            /\ inbox # <<>> /\ inbox' = Tail(inbox)
            /\ get'[1].id = Head(inbox).id]_vars
    /\ [][(rpc = "get" /\ (rpc' # rpc \/ get' # get \/ scrape' # scrape)) =>
            (rpc' = "idle" /\ get' = <<>> /\ inbox' = inbox)]_vars
    /\ [][pub' # pub =>
            /\ written' = written + 1
            /\ Len(pub') = Len(pub) + 1
            /\ SubSeq(pub', 1, Len(pub)) = pub
            /\ pub'[Len(pub')].id = written'
            /\ relayInbox' \in {relayInbox,
                                Append(relayInbox, [id |-> written',
                                                    subject |-> pub'[Len(pub')].subject,
                                                    data |-> pub'[Len(pub')].data])}]_vars
    /\ [][Len(relayInbox') > Len(relayInbox) => pub' # pub]_vars
    /\ [][(post' # post /\ post' # <<>>) =>
            /\ kpc = "idle" /\ post = <<>>
            /\ relayInbox # <<>> /\ relayInbox' = Tail(relayInbox)
            /\ post'[1].id = Head(relayInbox).id]_vars
    /\ [][(kpc = "post" /\ (kpc' # kpc \/ post' # post \/ relayed' # relayed)) =>
            (kpc' = "idle" /\ post' = <<>> /\ relayInbox' = relayInbox)]_vars

\* a pull whose bus request failed has been answered 503 and a relayed
\* message's POST could not be sent: nothing of either is under way again
C29_Witness ==
    /\ resp # <<>> /\ resp[1].status = 503
    /\ pc = "idle" /\ inbox = <<>> /\ rpc = "idle" /\ get = <<>>
    /\ \E i \in 1..Len(relayed) : relayed[i].outcome = "send error"
    /\ Len(pub) = Len(relayed)
    /\ relayInbox = <<>> /\ kpc = "idle" /\ post = <<>>

\* os.Stat on the -subs path returned an error
FileMissing == env.file = "missing"

(***************************************************************************)
(* C30: when the subscription file does not exist, startup skips the       *)
(* subscriptions and continues: no record is loaded, no exporter           *)
(* subscription is made and the route table stays empty; the step after    *)
(* the check of the file is the connection, never the exit; with -creds    *)
(* given and the connection made the loop is reached and left for          *)
(* ListenAndServe; the process exits only when -creds is absent, the       *)
(* connection fails or the listener fails.                                 *)
(***************************************************************************)
C30_MissingFileSkipped ==
    /\ [](FileMissing =>
            /\ exporterSub = <<>>
            /\ subscribed = <<>>
            /\ DOMAIN topicMap = {}
            /\ inbox = <<>>)
    /\ [](FileMissing /\ boot.at = "exit" =>
            ~env.creds \/ ~env.connect \/ ~env.listen)
    /\ []((FileMissing /\ running /\ boot.at # "serve") =>
            ENABLED (MainLoadSubscriptions \/ MainConnect \/ MainListen))
    /\ [][(FileMissing /\ boot' # boot) =>
            CASE boot.at = "stat"    -> running' /\ boot'.at = "connect"
              [] boot.at = "connect" -> (env.creds /\ env.connect) =>
                                            (running' /\ boot'.at = "loop")
              [] boot.at = "loop"    -> env.listen => (running' /\ boot'.at = "serve")
              [] OTHER               -> FALSE]_vars

\* started without a subscription file, the process serves HTTP with no
\* exporter subscription
C30_Witness ==
    /\ FileMissing
    /\ running
    /\ boot.at = "serve"
    /\ subscribed = <<>>

(***************************************************************************)
(* C31: the remote write endpoint is not used together with a subscription *)
(* file: in every run where -remotewrite is set no exporter subscription   *)
(* of a subscription file is made, so the relay's subscription and the     *)
(* responder's subscriptions are never both active in one process.         *)
(***************************************************************************)
C31_NoExporterSubscriptionWithRemoteWrite ==
    topicRemoteWrite # "" => subscribed = <<>>

(***************************************************************************)
(* what the specification says of the responder                            *)
(***************************************************************************)
\* the counter after, raised by one for the labels and otherwise as before
RaisedByOne(before, after, labels) ==
    /\ Count(after, labels) = Count(before, labels) + 1
    /\ \A l \in (DOMAIN before \cup DOMAIN after) \ {labels} :
            Count(after, l) = Count(before, l)

\* the responder is entered in this step for the next message
ResponderTakes == inbox # <<>> /\ inbox' = Tail(inbox)

(***************************************************************************)
(* C32: a responder invoked with an empty subject fails fast: it returns   *)
(* the bad-request error without any HTTP GET and raises replies_total for *)
(* ("", "400") by exactly one, no other counter value changing.            *)
(***************************************************************************)
C32_EmptySubjectFailsFast ==
    [][(ResponderTakes /\ Head(inbox).subject = <<>>) =>
            /\ rpc' = "idle"
            /\ get' = <<>>
            /\ scrape' = <<[id |-> Head(inbox).id, outcome |-> "no topic", body |-> <<>>]>>
            /\ RaisedByOne(proxyReply, proxyReply', <<<<>>, "400">>)
            /\ proxyRequest' = proxyRequest]_vars

\* two calls with the empty subject have returned the error
C32_Witness ==
    /\ scrape # <<>>
    /\ scrape[1].outcome = "no topic"
    /\ rpc = "idle"
    /\ inbox = <<>>
    /\ Count(proxyReply, <<<<>>, "400">>) = MaxRequests

\* the bridge waits for the reply to the request the responder works on
BridgeWaitsFor(id) == pc = "request" /\ natsReq # <<>> /\ natsReq[1].id = id

(***************************************************************************)
(* C33: when the responder's HTTP GET succeeds, the payload of the bus     *)
(* reply is the exporter's response body and replies_total for             *)
(* (subject, "200") is raised by exactly one; when the GET or the reading  *)
(* of the body fails, replies_total is not raised at all.                  *)
(***************************************************************************)
C33_SuccessRepliesBodyAndCounts ==
    [][(rpc = "get" /\ rpc' = "idle") =>
            /\ scrape' # <<>>
            /\ scrape'[1].id = get[1].id
            /\ IF scrape'[1].outcome = "ok"
               THEN /\ RaisedByOne(proxyReply, proxyReply', <<get[1].topic, "200">>)
                    /\ BridgeWaitsFor(get[1].id) =>
                            natsReply' = <<[data |-> scrape'[1].body]>>
               ELSE proxyReply' = proxyReply]_vars

\* the bridge holds the reply of a successful scrape, a non-empty body
C33_Witness ==
    /\ scrape # <<>>
    /\ scrape[1].outcome = "ok"
    /\ scrape[1].body # <<>>
    /\ BridgeWaitsFor(scrape[1].id)
    /\ natsReply = <<[data |-> scrape[1].body]>>
    /\ Count(proxyReply, <<natsReq[1].subject, "200">>) = 1

(***************************************************************************)
(* C34: for every bus request delivered to an exporter subscription, the   *)
(* target URL the responder uses is the default route of the record the    *)
(* receiving subscription was made for, also when the topic holds a        *)
(* wildcard (the subject of the message then differs from the topic) and   *)
(* when two records share a topic.                                         *)
(***************************************************************************)
C34_RouteOfReceivingSubscription ==
    [][(ResponderTakes /\ Head(inbox).sub > 0 /\ get' # <<>>) =>
            get'[1].url = exporterSub[Head(inbox).sub].route]_vars

(***************************************************************************)
(* C35: with the ingress and the relay configured with the same base       *)
(* subject, every payload the ingress publishes (on base + ".encoding." +  *)
(* tag) is delivered to the relay's subscription, which is made on the     *)
(* base subject itself, so that each accepted push leads to a relay        *)
(* invocation.                                                             *)
(***************************************************************************)
C35_PublishedReachesRelay ==
    [][(/\ relayTopic = topicBase
        /\ topicRemoteWrite # ""
        /\ Len(pub') > Len(pub)
        /\ ~pub'[Len(pub')].err) =>
            /\ Len(relayInbox') = Len(relayInbox) + 1
            /\ relayInbox'[Len(relayInbox')].subject = pub'[Len(pub')].subject
            /\ relayInbox'[Len(relayInbox')].data = pub'[Len(pub')].data]_vars

\* a duration above zero
Positive64(a) == ~IsNegative(a) /\ a # Int64Zero

\* the digits of the integer header h without sign and leading zeros
Magnitude(h) == WithoutLeadingZeros(IF h[1] \in {"+", "-"} THEN Tail(h) ELSE h)

RECURSIVE DigitsLeq(_, _)
\* a <= b for numerals of one length
DigitsLeq(a, b) ==
    IF a = <<>> THEN TRUE
    ELSE IF a[1] = b[1] THEN DigitsLeq(Tail(a), Tail(b))
    ELSE DigitValue(a[1]) < DigitValue(b[1])

\* the integer header's magnitude in seconds fits a 64-bit count of
\* nanoseconds: it is at most 9223372036
WithinSeconds(h) ==
    \/ Len(Magnitude(h)) < 10
    \/ /\ Len(Magnitude(h)) = 10
       /\ DigitsLeq(Magnitude(h), <<"9","2","2","3","3","7","2","0","3","6">>)

(***************************************************************************)
(* C36, as the specification states it: the timeout the bridge passes to   *)
(* the bus request is strictly positive for every value of the header      *)
(* x-prometheus-scrape-timeout-seconds, 0, negative integers and integers  *)
(* whose product with one second overflows 64 bits included.               *)
(***************************************************************************)
C36_TimeoutAlwaysPositive == Requested => Positive64(natsReq[1].timeout)

(***************************************************************************)
(* C36, amended: the timeout is strictly positive when the header is       *)
(* absent or not an integer and when it is an integer from 1 to            *)
(* 9223372036; it is zero for the header 0 and negative for an integer     *)
(* from -9223372036 to -1; beyond that range the product with one second   *)
(* wraps: negative for 9223372037, positive for 18446744074.               *)
(***************************************************************************)
C36_TimeoutSignFollowsHeader ==
    \A r \in Requests :
        (Pulling(r) /\ Requested) =>
            LET h == r.timeoutHdr
                t == natsReq[1].timeout
            IN  IF ~IsInteger(h) THEN Positive64(t)
                ELSE IF Magnitude(h) = <<"0">> THEN t = Int64Zero
                ELSE IF WithinSeconds(h)
                THEN IF h[1] = "-" THEN IsNegative(t) ELSE Positive64(t)
                ELSE /\ h = <<"9","2","2","3","3","7","2","0","3","7">> => IsNegative(t)
                     /\ h = <<"1","8","4","4","6","7","4","4","0","7","4">> => Positive64(t)

\* a bus request with the timeout zero, for the header 0
C36_Witness ==
    /\ Requested
    /\ req[1].timeoutHdr = <<"0">>
    /\ natsReq[1].timeout = Int64Zero
    /\ pc = "request"

\* the code label of an HTTP status
CodeOf(status) == IF status = 200 THEN "200" ELSE IF status = 503 THEN "503" ELSE "502"

\* nc.Request returns to the handler in this step and the handler answers
HandlerAnswersBus == pc = "request" /\ pc' = "idle"

(***************************************************************************)
(* C37: each pull request that reaches the bus request and gets an HTTP    *)
(* response raises requests_total exactly once, for the subject of the     *)
(* request and the code of the status written, 200 or 503; a pull request  *)
(* answered 502 raises no counter, and requests_total changes in no other  *)
(* step.                                                                   *)
(***************************************************************************)
C37_RequestCountedOncePerAnswer ==
    /\ [][HandlerAnswersBus =>
            /\ resp' # <<>>
            /\ resp'[1].status \in {200, 503}
            /\ RaisedByOne(proxyRequest, proxyRequest',
                           <<natsReq[1].subject, CodeOf(resp'[1].status)>>)]_vars
    /\ [][(served' = served + 1 /\ resp' # <<>>) =>
            /\ resp'[1].status = 502
            /\ proxyRequest' = proxyRequest
            /\ proxyReply' = proxyReply]_vars
    /\ [][proxyRequest' # proxyRequest => HandlerAnswersBus]_vars

\* one pull answered 200 and one answered 503 on the same subject, each counted
C37_Witness ==
    /\ served = 2
    /\ pc = "idle"
    /\ natsReq # <<>>
    /\ Count(proxyRequest, <<natsReq[1].subject, "200">>) = 1
    /\ Count(proxyRequest, <<natsReq[1].subject, "503">>) = 1
    /\ Total(proxyRequest) = 2

\* one status has been written for the pull request, or the process is gone
Completed ==
    \/ pc = "idle" /\ resp # <<>> /\ resp[1].status \in {200, 502, 503}
    \/ pc = "fatal" /\ ~running

(***************************************************************************)
(* C38: every pull request the bridge handles eventually completes, with   *)
(* exactly one HTTP status (200, 502 or 503) or with the end of the        *)
(* process, provided the bus request returns a reply or an error within    *)
(* its timeout: a handler that waits in the bus request leaves it, the     *)
(* handler waits nowhere else, and a status is written only once for a     *)
(* request, either on its arrival or when the bus request returns.         *)
(***************************************************************************)
C38_PullCompletes ==
    /\ (pc = "request") ~> Completed
    /\ [](served > 0 => (pc = "request" /\ resp = <<>>) \/ Completed)
    /\ [][(resp' # resp /\ resp' # <<>>) =>
            \/ served' = served + 1 /\ pc = "idle" /\ pc' = "idle"
            \/ served' = served /\ HandlerAnswersBus /\ resp = <<>>]_vars

\* the last of the pull requests has been answered 503 after waiting
C38_Witness ==
    /\ served = MaxRequests
    /\ pc = "idle"
    /\ natsReq # <<>>
    /\ natsReq[1].id = served
    /\ resp # <<>> /\ resp[1].status = 503

====
